---------------------------- MODULE Spec2Model ----------------------------
(***************************************************************************)
(* A model of the distributed-array part of nbodykit/utils.py:             *)
(* GatherArray, ScatterArray, FrontPadArray, LinearTopology and            *)
(* DistributedArray.                                                        *)
(*                                                                         *)
(* The program is SPMD: every rank runs the same function and the ranks    *)
(* meet in blocking collectives.  Each rank has a position pc[r] (the      *)
(* collective call it is waiting in, or "returned" / "raised"), its        *)
(* locals loc[r] and its outcome ret[r].  One action models one collective *)
(* call site together with the local code that follows it up to the next   *)
(* collective; it is enabled when every rank of the communicator waits at  *)
(* that site.  A rank that waits at a site some other rank will never      *)
(* reach is blocked for ever.                                              *)
(***************************************************************************)
EXTENDS Integers, Sequences, FiniteSets, TLC

\* Size of the communicator (comm.size) and the largest local length.
NRanks == 3
MaxLen == 2

Ranks == 0 .. NRanks - 1

\* The `root=Ellipsis` sentinel of GatherArray (not a rank number).
Ellipsis == -1

\* mpi4py's default root of comm.bcast(obj) and comm.Scatterv(send, recv).
DefaultRoot == 0

\* Content of numpy.empty(...) before anything is written to it.
Uninit == -1

VARIABLES call, arg, pc, loc, ret

vars == <<call, arg, pc, loc, ret>>

---------------------------------------------------------------------------
(* Python values *)

None == [kind |-> "None"]

\* Any object that is not a numpy.ndarray (a list, say).
NotArray == [kind |-> "list"]

\* numpy.ndarray: data.dtype, data.shape[1:], and the rows data[0], data[1]..
ndarray(dtype, tshape, rows) ==
    [kind |-> "ndarray", dtype |-> dtype, tshape |-> tshape, rows |-> rows]

isinstance_ndarray(x) == x.kind = "ndarray"

\* numpy dtypes.  A flat dtype has no names; a structured one ('V') has the
\* field names and, in the same order, the type chars of its fields.
int64   == [char |-> "l", itemsize |-> 8, names |-> <<>>, ftypes |-> <<>>]
float64 == [char |-> "d", itemsize |-> 8, names |-> <<>>, ftypes |-> <<>>]
float32 == [char |-> "f", itemsize |-> 4, names |-> <<>>, ftypes |-> <<>>]
object_ == [char |-> "O", itemsize |-> 8, names |-> <<>>, ftypes |-> <<>>]

FlatDtype(c) ==
    CASE c = "l" -> int64
      [] c = "d" -> float64
      [] c = "f" -> float32
      [] c = "O" -> object_

RECURSIVE SumSeq(_)
SumSeq(s) == IF s = <<>> THEN 0 ELSE Head(s) + SumSeq(Tail(s))

RECURSIVE ProdSeq(_)
ProdSeq(s) == IF s = <<>> THEN 1 ELSE Head(s) * ProdSeq(Tail(s))

structured(names, ftypes) ==
    [char |-> "V",
     itemsize |-> SumSeq([i \in 1 .. Len(ftypes) |-> FlatDtype(ftypes[i]).itemsize]),
     names |-> names, ftypes |-> ftypes]

Range(s) == {s[i] : i \in DOMAIN s}

\* data.shape
Shape(data) == <<Len(data.rows)>> \o data.tshape

\* data[name] of a structured array, name being the k-th field.
Column(data, k) ==
    ndarray(FlatDtype(data.dtype.ftypes[k]), data.tshape,
            [i \in 1 .. Len(data.rows) |-> data.rows[i][k]])

\* numpy.empty(newshape, dtype)
Empty(n, dtype, tshape) ==
    ndarray(dtype, tshape,
            [i \in 1 .. n |->
                IF dtype.char = "V" THEN [k \in 1 .. Len(dtype.names) |-> Uninit]
                ELSE Uninit])

\* Python truth values that may also be None, as broadcast by comm.bcast.
PyBool(b) == IF b THEN "True" ELSE "False"
Truthy(x) == x = "True"

---------------------------------------------------------------------------
(* Arithmetic on per-rank lists (indexed by rank, from 0) *)

\* f[0] + ... + f[n-1]
RECURSIVE SumTo(_, _)
SumTo(f, n) == IF n = 0 THEN 0 ELSE SumTo(f, n - 1) + f[n - 1]

\* f[0] \o ... \o f[n-1]
RECURSIVE ConcatTo(_, _)
ConcatTo(f, n) == IF n = 0 THEN <<>> ELSE ConcatTo(f, n - 1) \o f[n - 1]

\* counts.cumsum()
Cumsum(counts) == [q \in DOMAIN counts |-> SumTo(counts, q + 1)]

\* offsets = zeros_like(counts); offsets[1:] = counts.cumsum()[:-1]
OffsetsInclusive(counts) == Cumsum(counts)
Offsets(counts) ==
    [q \in DOMAIN counts |-> IF q = 0 THEN 0 ELSE Cumsum(counts)[q - 1]]

---------------------------------------------------------------------------
(* Steps of a rank *)

Put(r, k, v) == (k :> v) @@ loc[r]

Goto(r, site, newloc) == [pc |-> site, loc |-> newloc, ret |-> ret[r]]

Raise(r, err) ==
    [pc |-> "raised", loc |-> loc[r], ret |-> [kind |-> "raise", err |-> err]]

Return(r, val) ==
    [pc |-> "returned", loc |-> loc[r], ret |-> [kind |-> "return", val |-> val]]

AllAt(site) == \A r \in Ranks : pc[r] = site

\* Every rank takes its step st[r] of the collective they all wait in.
Collective(st) ==
    /\ pc' = [r \in Ranks |-> st[r].pc]
    /\ loc' = [r \in Ranks |-> st[r].loc]
    /\ ret' = [r \in Ranks |-> st[r].ret]
    /\ UNCHANGED <<call, arg>>

Pending == [kind |-> "pending"]

Done(r) == pc[r] \in {"returned", "raised"}
AllDone == \A r \in Ranks : Done(r)
AllReturned == \A r \in Ranks : pc[r] = "returned"
\* r waits in a collective that a finished rank will never join.
Blocked(r) == ~Done(r) /\ \E q \in Ranks : Done(q)

---------------------------------------------------------------------------
(* GatherArray(data, comm, root=0) *)

\* `root is Ellipsis or comm.rank == root`
IsDest(r) == call.root = Ellipsis \/ r = call.root

\* A value that arrived through a transfer whose two sides disagree on the
\* record size or type: its content is not defined.
Garbage == Uninit - 1

\* Entry of GatherArray(data, comm, root) on rank r; frame holds what the
\* caller keeps (the field loop of a structured gather, or nothing).
GatherEnter(r, data, frame) ==
    IF ~isinstance_ndarray(data)
    THEN Raise(r, "ValueError: data must be numpy array in GatherArray")
    ELSE Goto(r, "G_allgather_shapes",
              ("data" :> data) @@ ("local_length" :> Len(data.rows)) @@ frame)

TopFrame == [fieldidx |-> 0]

GatherArray_call ==
    /\ AllAt("G_call")
    /\ Collective([r \in Ranks |-> GatherEnter(r, arg[r], TopFrame)])

\* shapes = comm.allgather(data.shape)
GatherArray_allgather_shapes ==
    /\ AllAt("G_allgather_shapes")
    /\ LET shapes == [q \in Ranks |-> Shape(loc[q].data)]
       IN  Collective([r \in Ranks |->
               Goto(r, "G_allgather_dtypes", Put(r, "shapes", shapes))])

\* any(set(dt.names) != names for dt in dtypes[1:]): the first rank whose
\* dtype is flat (names is None, set(None) raises) or has other field names
\* decides.
FieldsCheck(dtypes) ==
    LET bad == {q \in Ranks \ {0} :
                   \/ dtypes[q].char # "V"
                   \/ Range(dtypes[q].names) # Range(dtypes[0].names)}
    IN  IF bad = {} THEN "ok"
        ELSE LET q == CHOOSE x \in bad : \A y \in bad : x <= y
             IN  IF dtypes[q].char # "V" THEN "TypeError" ELSE "ValueError"

\* bad_shape = any(s[1:] != shapes[0][1:] for s in shapes[1:])
BadShape(shapes) == \E q \in Ranks \ {0} : Tail(shapes[q]) # Tail(shapes[0])

\* bad_dtype = any(dt != dtypes[0] for dt in dtypes[1:])
BadDtype(dtypes) == \E q \in Ranks \ {0} : dtypes[q] # dtypes[0]

\* The flags a rank hands to comm.bcast: computed on the destination
\* rank(s), None elsewhere.
BadFlags(r, shapes, dtypes) ==
    IF IsDest(r) THEN <<PyBool(BadShape(shapes)), PyBool(BadDtype(dtypes))>>
    ELSE <<"None", "None">>

\* Local code between the dtype all-gather and the next collective.
GatherAfterDtypes(r, dtypes) ==
    LET l == Put(r, "dtypes", dtypes) IN
    IF dtypes[0].char = "V"
    THEN CASE FieldsCheck(dtypes) = "TypeError" ->
                Raise(r, "TypeError: 'NoneType' object is not iterable")
           [] FieldsCheck(dtypes) = "ValueError" ->
                Raise(r, "ValueError: mismatch between data type fields in structured data")
           [] OTHER ->
                IF \E k \in DOMAIN dtypes[0].ftypes : dtypes[0].ftypes[k] = "O"
                THEN Raise(r, "ValueError: object data types ('O') not allowed")
                ELSE Goto(r, "G_struct_allreduce", l)
    ELSE IF dtypes[0] = object_
    THEN Raise(r, "ValueError: object data types ('O') not allowed")
    ELSE Goto(r, "G_bcast_bad",
              ("bad" :> BadFlags(r, l.shapes, dtypes)) @@ l)

\* dtypes = comm.allgather(data.dtype), and the checks up to comm.bcast
GatherArray_allgather_dtypes ==
    /\ AllAt("G_allgather_dtypes")
    /\ LET dtypes == [q \in Ranks |-> loc[q].data.dtype]
       IN  Collective([r \in Ranks |-> GatherAfterDtypes(r, dtypes)])

\* The rank whose (bad_shape, bad_dtype) comm.bcast delivers to everybody.
GatherBcastRoot == DefaultRoot

\* bad_shape, bad_dtype = comm.bcast((bad_shape, bad_dtype)), the two raises
\* and the transfer descriptor
GatherArray_bcast_bad ==
    /\ AllAt("G_bcast_bad")
    /\ LET got == loc[GatherBcastRoot].bad
       IN  Collective([r \in Ranks |->
               IF Truthy(got[1])
               THEN Raise(r, "ValueError: mismatch between shape[1:] across ranks in GatherArray")
               ELSE IF Truthy(got[2])
               THEN Raise(r, "ValueError: mismatch between dtypes across ranks in GatherArray")
               ELSE Goto(r, "G_allreduce",
                         ("itemsize" :> ProdSeq(loc[r].data.tshape) * loc[r].data.dtype.itemsize)
                         @@ Put(r, "bad", got))])

\* newlength = comm.allreduce(local_length) and the return array
GatherArray_allreduce ==
    /\ AllAt("G_allreduce")
    /\ LET newlength == SumTo([q \in Ranks |-> loc[q].local_length], NRanks)
       IN  Collective([r \in Ranks |->
               Goto(r, "G_allgather_counts",
                    ("recvbuffer" :>
                        IF IsDest(r)
                        THEN Empty(newlength, loc[r].data.dtype, loc[r].data.tshape)
                        ELSE None)
                    @@ Put(r, "newlength", newlength))])

GatherOffsetsInclusive(counts) == OffsetsInclusive(counts)

\* The recv offsets GatherArray derives from the recv counts.
GatherOffsets(counts) == Offsets(counts)

\* counts = comm.allgather(local_length) and the recv offsets
GatherArray_allgather_counts ==
    /\ AllAt("G_allgather_counts")
    /\ LET counts == [q \in Ranks |-> loc[q].local_length]
       IN  Collective([r \in Ranks |->
               Goto(r, "G_gatherv",
                    ("offsets" :> GatherOffsets(counts)) @@ Put(r, "counts", counts))])

\* The sender q and the receiver r describe the same records.
WireOK(q, r) ==
    \/ loc[q].local_length = 0
    \/ /\ loc[q].itemsize = loc[r].itemsize
       /\ loc[q].data.dtype = loc[r].data.dtype

\* comm.Gatherv([data, dt], [recvbuffer, (counts, offsets), dt]) as seen by
\* the receiver r: counts[q] records of rank q land at offsets[q].
Gatherv(r) ==
    LET buf == loc[r].recvbuffer
        src(i) == {q \in Ranks : /\ loc[r].offsets[q] < i
                                 /\ i <= loc[r].offsets[q] + loc[r].counts[q]}
        last(S) == CHOOSE q \in S : \A p \in S : p <= q
    IN  [buf EXCEPT !.rows =
            [i \in 1 .. Len(buf.rows) |->
                IF src(i) = {} THEN buf.rows[i]
                ELSE LET q == last(src(i))
                     IN  IF WireOK(q, r)
                         THEN loc[q].data.rows[i - loc[r].offsets[q]]
                         ELSE Garbage]]

\* recvbuffer[name] = d
SetColumn(buf, k, d) ==
    [buf EXCEPT !.rows =
        [i \in 1 .. Len(buf.rows) |-> [buf.rows[i] EXCEPT ![k] = d.rows[i]]]]

FieldIndex(dtype, name) ==
    CHOOSE k \in DOMAIN dtype.names : dtype.names[k] = name

\* data[name]
Field(data, name) == Column(data, FieldIndex(data.dtype, name))

\* `return recvbuffer` of a flat gather: to the caller of GatherArray, or
\* into the field loop of the structured gather that called it.
GatherReturn(r, d) ==
    IF loc[r].fieldidx = 0 THEN Return(r, d)
    ELSE LET k     == loc[r].fieldidx
             names == loc[r].o_names
             orecv == IF IsDest(r) THEN SetColumn(loc[r].o_recv, k, d)
                      ELSE loc[r].o_recv
         IN  IF k < Len(names)
             THEN GatherEnter(r, Field(loc[r].o_data, names[k + 1]),
                              [fieldidx |-> k + 1, o_names |-> names,
                               o_data |-> loc[r].o_data, o_recv |-> orecv])
             ELSE Return(r, orecv)

\* comm.Allgatherv / comm.Gatherv, dt.Free() and the return.  A transfer
\* whose sides disagree on the record is erroneous: the receiver gets an MPI
\* error or undefined content.
GatherArray_gatherv ==
    /\ AllAt("G_gatherv")
    /\ \E outcome \in {"error", "garbage"} :
          Collective([r \in Ranks |->
              IF ~IsDest(r) THEN GatherReturn(r, None)
              ELSE IF outcome = "error" /\ \E q \in Ranks : ~WireOK(q, r)
              THEN Raise(r, "MPI.Exception")
              ELSE GatherReturn(r, Gatherv(r))])

\* The structured branch: newlength = comm.allreduce(local_length), the
\* return array, and the first pass of `for name in dtypes[0].names`.
GatherArray_struct_allreduce ==
    /\ AllAt("G_struct_allreduce")
    /\ LET newlength == SumTo([q \in Ranks |-> loc[q].local_length], NRanks)
       IN  Collective([r \in Ranks |->
               LET names == loc[r].dtypes[0].names
               IN  GatherEnter(r, Field(loc[r].data, names[1]),
                       [fieldidx |-> 1, o_names |-> names, o_data |-> loc[r].data,
                        o_recv |-> IF IsDest(r)
                                   THEN Empty(newlength, loc[r].dtypes[0], loc[r].data.tshape)
                                   ELSE None])])

GatherNext ==
    \/ GatherArray_call
    \/ GatherArray_allgather_shapes
    \/ GatherArray_allgather_dtypes
    \/ GatherArray_bcast_bad
    \/ GatherArray_allreduce
    \/ GatherArray_allgather_counts
    \/ GatherArray_gatherv
    \/ GatherArray_struct_allreduce

---------------------------------------------------------------------------
(* Inputs *)

\* Row j (from 1) of the array rank r holds; no two rows are alike, so a
\* row that moved is told from every other.
Elem(r, j) == r * MaxLen + j

FlatRows(r, n) == [j \in 1 .. n |-> Elem(r, j)]
StructRows(r, n) == [j \in 1 .. n |-> <<Elem(r, j), Elem(r, j) + NRanks * MaxLen>>]

MakeArray(r, n, dtype, tshape) ==
    ndarray(dtype, tshape,
            IF dtype.char = "V" THEN StructRows(r, n) ELSE FlatRows(r, n))

Lens == [Ranks -> 0 .. MaxLen]

ab_ll == structured(<<"a", "b">>, <<"l", "l">>)
ab_lf == structured(<<"a", "b">>, <<"l", "f">>)
ac_ll == structured(<<"a", "c">>, <<"l", "l">>)
ab_lO == structured(<<"a", "b">>, <<"l", "O">>)

\* What the one deviating rank holds instead, by kind of deviation.
DeviantKinds == {"dtype, same size", "dtype, other size", "flat or structured",
                 "trailing shape", "not an array"}

Deviant(r, n, dt, kind) ==
    CASE kind = "dtype, same size" ->
            MakeArray(r, n, IF dt = int64 THEN float64 ELSE ac_ll, <<>>)
      [] kind = "dtype, other size" ->
            MakeArray(r, n, IF dt = int64 THEN float32 ELSE ab_lf, <<>>)
      [] kind = "flat or structured" ->
            MakeArray(r, n, IF dt = int64 THEN ab_ll ELSE int64, <<>>)
      [] kind = "trailing shape" -> MakeArray(r, n, dt, <<2>>)
      [] kind = "not an array" -> NotArray

NoLocals == [r \in Ranks |-> [fieldidx |-> 0]]

\* Either every rank holds an array of the same dtype and trailing shape, or
\* one rank deviates.
InitGather ==
    /\ call \in {[op |-> "GatherArray", root |-> rt] : rt \in Ranks \cup {Ellipsis}}
    /\ \/ \E lens \in Lens, dt \in {int64, ab_ll, object_, ab_lO}, ts \in {<<>>, <<2>>} :
             arg = [r \in Ranks |-> MakeArray(r, lens[r], dt, ts)]
       \/ \E d \in Ranks, lens \in Lens, dt \in {int64, ab_ll}, kind \in DeviantKinds :
             arg = [r \in Ranks |->
                       IF r = d THEN Deviant(d, lens[d], dt, kind)
                       ELSE MakeArray(r, lens[r], dt, <<>>)]
    /\ pc = [r \in Ranks |-> "G_call"]
    /\ loc = NoLocals
    /\ ret = [r \in Ranks |-> Pending]

SpecGather == InitGather /\ [][GatherNext]_vars

---------------------------------------------------------------------------
(* ScatterArray(data, comm, root=0, counts=None) *)

\* counts given as a Python list c[0], c[1], ...: as a per-rank list
ByRank(list) == [q \in 0 .. Len(list) - 1 |-> list[q + 1]]

\* The rank whose metadata branch `if comm.rank == 0:` builds
\* shape_and_dtype from data.
ScatterMetaRank == 0

\* The opening of ScatterArray: the counts length check and the root's
\* bad_input flag.
ScatterArray_call ==
    /\ AllAt("S_call")
    /\ Collective([r \in Ranks |->
           IF call.counts # None /\ Len(call.counts.list) # NRanks
           THEN Raise(r, "ValueError: counts array has wrong length!")
           ELSE Goto(r, "S_bcast_bad_input",
                     ("data" :> arg[r])
                     @@ ("bad_input" :> IF r = call.root
                                        THEN PyBool(~isinstance_ndarray(arg[r]))
                                        ELSE "None")
                     @@ loc[r])])

\* bad_input = comm.bcast(bad_input), the raise, and the metadata branch
ScatterArray_bcast_bad_input ==
    /\ AllAt("S_bcast_bad_input")
    /\ LET got == loc[DefaultRoot].bad_input
       IN  Collective([r \in Ranks |->
               IF Truthy(got)
               THEN Raise(r, "ValueError: data must by numpy array on root in ScatterArray")
               ELSE IF r = ScatterMetaRank
               THEN IF ~isinstance_ndarray(loc[r].data)
                    THEN Raise(r, "AttributeError: object has no attribute 'flags'")
                    ELSE Goto(r, "S_bcast_shape",
                              ("shape_and_dtype" :>
                                  <<Shape(loc[r].data), loc[r].data.dtype>>)
                              @@ Put(r, "bad_input", got))
               ELSE Goto(r, "S_bcast_shape",
                         ("shape_and_dtype" :> None) @@ Put(r, "bad_input", got))])

\* newlength when counts is None; and with the extra rows on the last ranks.
EvenShareLast(r, length) ==
    (length \div NRanks) + (IF r >= NRanks - (length % NRanks) THEN 1 ELSE 0)

EvenShare(r, length) ==
    (length \div NRanks) + (IF r < length % NRanks THEN 1 ELSE 0)

\* The same without the comparison of counts.sum() with shape[0].
ScatterAfterShapeAnySum(r, shape, dtype) ==
    LET data   == IF r # call.root THEN Empty(0, dtype, Tail(shape)) ELSE loc[r].data
        l      == ("shape" :> shape) @@ ("dtype" :> dtype) @@ ("data" :> data)
                  @@ ("itemsize" :> ProdSeq(Tail(shape)) * dtype.itemsize) @@ loc[r]
    IN  IF \/ dtype = object_
           \/ dtype.char = "V" /\ \E k \in DOMAIN dtype.ftypes : dtype.ftypes[k] = "O"
        THEN Raise(r, "ValueError: 'object' data type not supported in ScatterArray")
        ELSE IF call.counts = None
        THEN LET newlength == EvenShare(r, shape[1])
             IN  Goto(r, "S_allgather_counts",
                      ("newlength" :> newlength)
                      @@ ("recvbuffer" :> Empty(newlength, dtype, Tail(shape))) @@ l)
        ELSE LET counts == ByRank(call.counts.list)
             IN  Goto(r, "S_barrier",
                      ("counts" :> counts) @@ ("offsets" :> Offsets(counts))
                      @@ ("recvbuffer" :> Empty(counts[r], dtype, Tail(shape))) @@ l)

\* Local code from the metadata broadcast to the next collective.
ScatterAfterShape(r, shape, dtype) ==
    LET data   == IF r # call.root THEN Empty(0, dtype, Tail(shape)) ELSE loc[r].data
        l      == ("shape" :> shape) @@ ("dtype" :> dtype) @@ ("data" :> data)
                  @@ ("itemsize" :> ProdSeq(Tail(shape)) * dtype.itemsize) @@ loc[r]
    IN  IF \/ dtype = object_
           \/ dtype.char = "V" /\ \E k \in DOMAIN dtype.ftypes : dtype.ftypes[k] = "O"
        THEN Raise(r, "ValueError: 'object' data type not supported in ScatterArray")
        ELSE IF call.counts = None
        THEN LET newlength == EvenShare(r, shape[1])
             IN  Goto(r, "S_allgather_counts",
                      ("newlength" :> newlength)
                      @@ ("recvbuffer" :> Empty(newlength, dtype, Tail(shape))) @@ l)
        ELSE LET counts == ByRank(call.counts.list)
             IN  IF SumTo(counts, NRanks) # shape[1]
                 THEN Raise(r, "ValueError: the sum of the counts array needs to be equal to data length")
                 ELSE Goto(r, "S_barrier",
                           ("counts" :> counts) @@ ("offsets" :> Offsets(counts))
                           @@ ("recvbuffer" :> Empty(counts[r], dtype, Tail(shape))) @@ l)

\* shape, dtype = comm.bcast(shape_and_dtype) and what follows it
ScatterArray_bcast_shape ==
    /\ AllAt("S_bcast_shape")
    /\ LET got == loc[DefaultRoot].shape_and_dtype
       IN  Collective([r \in Ranks |-> ScatterAfterShape(r, got[1], got[2])])

\* counts = comm.allgather(newlength) and the send offsets
ScatterArray_allgather_counts ==
    /\ AllAt("S_allgather_counts")
    /\ LET counts == [q \in Ranks |-> loc[q].newlength]
       IN  Collective([r \in Ranks |->
               Goto(r, "S_barrier",
                    ("offsets" :> Offsets(counts)) @@ Put(r, "counts", counts))])

\* comm.Barrier()
ScatterArray_barrier ==
    /\ AllAt("S_barrier")
    /\ Collective([r \in Ranks |-> Goto(r, "S_scatterv", loc[r])])

ScattervFromStart(r) ==
    LET buf == loc[r].recvbuffer
        src == loc[DefaultRoot].data.rows
    IN  [buf EXCEPT !.rows =
            [i \in 1 .. Len(buf.rows) |-> IF i \in DOMAIN src THEN src[i] ELSE Garbage]]

\* comm.Scatterv([data, (counts, offsets), dt], [recvbuffer, dt]) as seen by
\* the receiver r: counts[r] records at offsets[r] of the sending rank's
\* data; a record the sender does not hold is undefined.
Scatterv(r) ==
    LET s   == DefaultRoot
        buf == loc[r].recvbuffer
        src == loc[s].data.rows
    IN  [buf EXCEPT !.rows =
            [i \in 1 .. Len(buf.rows) |->
                IF i > loc[s].counts[r] THEN buf.rows[i]
                ELSE IF loc[s].offsets[r] + i \in DOMAIN src
                THEN src[loc[s].offsets[r] + i]
                ELSE Garbage]]

\* the scatter, dt.Free() and the return
ScatterArray_scatterv ==
    /\ AllAt("S_scatterv")
    /\ Collective([r \in Ranks |-> Return(r, Scatterv(r))])

ScatterNext ==
    \/ ScatterArray_call
    \/ ScatterArray_bcast_bad_input
    \/ ScatterArray_bcast_shape
    \/ ScatterArray_allgather_counts
    \/ ScatterArray_barrier
    \/ ScatterArray_scatterv

\* Lengths of the array the root holds.
SourceLens == 0 .. NRanks * MaxLen

PyList(l) == [kind |-> "list", list |-> l]

CountsArgs ==
    {None}
    \cup {PyList(l) : l \in [1 .. NRanks -> 0 .. MaxLen]}
    \cup {PyList(l) : l \in [1 .. NRanks - 1 -> 0 .. 1]}
    \cup {PyList([i \in 1 .. NRanks + 1 |-> 1])}

\* data is on root only, and None on the other ranks.
InitScatter ==
    /\ call \in {[op |-> "ScatterArray", root |-> rt, counts |-> c] :
                    rt \in Ranks, c \in CountsArgs}
    /\ \/ \E n \in SourceLens, dt \in {int64, ab_ll, object_}, ts \in {<<>>, <<2>>} :
             arg = [r \in Ranks |->
                       IF r = call.root THEN MakeArray(0, n, dt, ts) ELSE None]
       \/ arg = [r \in Ranks |-> IF r = call.root THEN NotArray ELSE None]
    /\ pc = [r \in Ranks |-> "S_call"]
    /\ loc = NoLocals
    /\ ret = [r \in Ranks |-> Pending]

SpecScatter == InitScatter /\ [][ScatterNext]_vars

---------------------------------------------------------------------------
(* ScatterArray, every rank at its own pace *)

\* Rank r alone takes the step st.
Step(r, st) ==
    /\ pc' = [pc EXCEPT ![r] = st.pc]
    /\ loc' = [loc EXCEPT ![r] = st.loc]
    /\ ret' = [ret EXCEPT ![r] = st.ret]
    /\ UNCHANGED <<call, arg>>

\* Rank r has called the broadcast of `field`: the root of a broadcast
\* needs no other rank to return from it, the others need the root.
BcastSent(r, field) == r = DefaultRoot \/ field \in DOMAIN loc[DefaultRoot]

\* The code up to bad_input = comm.bcast(bad_input), which rank r calls.
ScatterArray_rank_call(r) ==
    /\ pc[r] = "S_call"
    /\ Step(r, IF call.counts # None /\ Len(call.counts.list) # NRanks
               THEN Raise(r, "ValueError: counts array has wrong length!")
               ELSE Goto(r, "S_bcast_bad_input",
                         ("data" :> arg[r])
                         @@ ("bad_input" :> IF r = call.root
                                            THEN PyBool(~isinstance_ndarray(arg[r]))
                                            ELSE "None")
                         @@ loc[r]))

\* Rank r returns from comm.bcast(bad_input) and goes on to
\* comm.bcast(shape_and_dtype).
ScatterArray_rank_bcast_bad_input(r) ==
    /\ pc[r] = "S_bcast_bad_input"
    /\ BcastSent(r, "bad_input")
    /\ LET got == loc[DefaultRoot].bad_input
       IN  Step(r, IF Truthy(got)
                   THEN Raise(r, "ValueError: data must by numpy array on root in ScatterArray")
                   ELSE IF r = ScatterMetaRank
                   THEN IF ~isinstance_ndarray(loc[r].data)
                        THEN Raise(r, "AttributeError: object has no attribute 'flags'")
                        ELSE Goto(r, "S_bcast_shape",
                                  ("shape_and_dtype" :>
                                      <<Shape(loc[r].data), loc[r].data.dtype>>)
                                  @@ Put(r, "bad_input", got))
                   ELSE Goto(r, "S_bcast_shape",
                             ("shape_and_dtype" :> None) @@ Put(r, "bad_input", got)))

\* Rank r returns from comm.bcast(shape_and_dtype), allocates recvbuffer and
\* goes on to the allgather of the counts or to the barrier.
ScatterArray_rank_bcast_shape(r) ==
    /\ pc[r] = "S_bcast_shape"
    /\ BcastSent(r, "shape_and_dtype")
    /\ LET got == loc[DefaultRoot].shape_and_dtype
       IN  Step(r, ScatterAfterShape(r, got[1], got[2]))

\* Rank r returns from comm.allgather(newlength), which every rank has
\* called, and goes on to the barrier.
ScatterArray_rank_allgather_counts(r) ==
    /\ pc[r] = "S_allgather_counts"
    /\ \A q \in Ranks : "newlength" \in DOMAIN loc[q]
    /\ LET counts == [q \in Ranks |-> loc[q].newlength]
       IN  Step(r, Goto(r, "S_barrier",
                        ("offsets" :> Offsets(counts)) @@ Put(r, "counts", counts)))

\* comm.Barrier() lets no rank on before every rank has called it; and a
\* barrier that lets every rank on at once.
BarrierOpen == TRUE
BarrierFull == \A q \in Ranks : pc[q] \in {"S_barrier", "S_scatterv", "returned"}

\* Rank r returns from comm.Barrier() and calls comm.Scatterv.
ScatterArray_rank_barrier(r) ==
    /\ pc[r] = "S_barrier"
    /\ BarrierFull
    /\ Step(r, Goto(r, "S_scatterv", loc[r]))

\* Rank r returns from comm.Scatterv, which the sending rank has called,
\* and from ScatterArray.
ScatterArray_rank_scatterv(r) ==
    /\ pc[r] = "S_scatterv"
    /\ r = DefaultRoot \/ pc[DefaultRoot] \in {"S_scatterv", "returned"}
    /\ Step(r, Return(r, Scatterv(r)))

ScatterOrderNext ==
    \E r \in Ranks :
        \/ ScatterArray_rank_call(r)
        \/ ScatterArray_rank_bcast_bad_input(r)
        \/ ScatterArray_rank_bcast_shape(r)
        \/ ScatterArray_rank_allgather_counts(r)
        \/ ScatterArray_rank_barrier(r)
        \/ ScatterArray_rank_scatterv(r)

\* counts: none, the even split, all rows to one rank, a wrong sum, a wrong
\* length.
InitScatterOrder ==
    /\ \E rt \in Ranks, n \in SourceLens, dt \in {int64, object_}, array \in BOOLEAN :
          /\ call \in {[op |-> "ScatterArray", root |-> rt, counts |-> c] :
                          c \in {None,
                                 PyList([i \in 1 .. NRanks |-> EvenShare(i - 1, n)]),
                                 PyList([i \in 1 .. NRanks |-> IF i = NRanks THEN n ELSE 0]),
                                 PyList([i \in 1 .. NRanks |-> 1]),
                                 PyList([i \in 1 .. NRanks - 1 |-> 1])}}
          /\ arg = [r \in Ranks |->
                       IF r # rt THEN None
                       ELSE IF array THEN MakeArray(0, n, dt, <<>>) ELSE NotArray]
    /\ pc = [r \in Ranks |-> "S_call"]
    /\ loc = NoLocals
    /\ ret = [r \in Ranks |-> Pending]

SpecScatterOrder == InitScatterOrder /\ [][ScatterOrderNext]_vars

---------------------------------------------------------------------------
(* Scatter(Gather(A, root=0), root=0, counts=local lengths) *)

RoundTrip_scatter ==
    /\ call.op = "RoundTrip:gather"
    /\ AllReturned
    /\ call' = [op |-> "RoundTrip:scatter", root |-> 0, orig |-> arg,
                counts |-> PyList([i \in 1 .. NRanks |-> Len(arg[i - 1].rows)])]
    /\ arg' = [r \in Ranks |-> ret[r].val]
    /\ pc' = [r \in Ranks |-> "S_call"]
    /\ loc' = NoLocals
    /\ ret' = [r \in Ranks |-> Pending]

InitRoundTrip ==
    /\ call = [op |-> "RoundTrip:gather", root |-> 0]
    /\ \E lens \in Lens, dt \in {int64, ab_ll}, ts \in {<<>>, <<2>>} :
          arg = [r \in Ranks |-> MakeArray(r, lens[r], dt, ts)]
    /\ pc = [r \in Ranks |-> "G_call"]
    /\ loc = NoLocals
    /\ ret = [r \in Ranks |-> Pending]

RoundTripNext ==
    \/ GatherNext
    \/ RoundTrip_scatter
    \/ ScatterArray_call
    \/ ScatterArray_bcast_bad_input
    \/ ScatterArray_bcast_shape
    \/ ScatterArray_barrier
    \/ ScatterArray_scatterv

SpecRoundTrip == InitRoundTrip /\ [][RoundTripNext]_vars

---------------------------------------------------------------------------
(* FrontPadArray(array, front, comm) *)

\* (offsets[:-1] + N)[i] - mystart, then torecv[torecv < 0] = 0, then
\* torecv[torecv > front] = 0
TorecvWindow(N, r, front, i) ==
    LET t0 == (SumTo(N, i) + N[i]) - (SumTo(N, r) - front)
        t1 == IF t0 < 0 THEN 0 ELSE t0
    IN  IF t1 > front THEN 0 ELSE t1

TorecvUnclamped(N, r, front) == [i \in Ranks |-> TorecvWindow(N, r, front, i)]

\* torecv on a rank that asks for `front` rows, N being the local lengths:
\*   torecv = (offsets[:-1] + N) - mystart
\*   torecv[torecv < 0] = 0; torecv[torecv > front] = 0
\*   torecv[torecv > N] = N[torecv > N]
Torecv(N, r, front) ==
    [i \in Ranks |->
        LET t2 == TorecvWindow(N, r, front, i)
        IN  IF t2 > N[i] THEN N[i] ELSE t2]

\* N = comm.allgather(len(array)) and the plan of what to receive
FrontPadArray_allgather_len ==
    /\ AllAt("P_allgather_len")
    /\ \E N \in {[q \in Ranks |-> Len(arg[q].array.rows)]} :
           Collective([r \in Ranks |->
               Goto(r, "P_allreduce",
                    ("torecv" :> Torecv(N, r, arg[r].front)) @@ Put(r, "N", N))])

PadInfeasibleLocal(r, flags) == flags[r]

\* comm.allreduce(torecv.sum() != front, MPI.LOR) as rank r gets it
PadInfeasible(r, flags) == \E q \in Ranks : flags[q]

\* the feasibility check
FrontPadArray_allreduce ==
    /\ AllAt("P_allreduce")
    /\ LET flags == [q \in Ranks |-> SumTo(loc[q].torecv, NRanks) # arg[q].front]
       IN  Collective([r \in Ranks |->
               IF PadInfeasible(r, flags)
               THEN Raise(r, "ValueError: cannot work out a plan to padd items")
               ELSE Goto(r, "P_alltoall_plan", loc[r])])

\* array[-items:] if items > 0 else array[0:0]
LastRows(rows, items) ==
    IF items > 0
    THEN SubSeq(rows, IF items >= Len(rows) THEN 1 ELSE Len(rows) - items + 1, Len(rows))
    ELSE <<>>

\* tosend = comm.alltoall(torecv) and the send buffers
FrontPadArray_alltoall_plan ==
    /\ AllAt("P_alltoall_plan")
    /\ Collective([r \in Ranks |->
           LET tosend == [i \in Ranks |-> loc[i].torecv[r]]
           IN  Goto(r, "P_alltoall_data",
                    ("sendbuf" :> [i \in Ranks |-> LastRows(arg[r].array.rows, tosend[i])])
                    @@ Put(r, "tosend", tosend))])

\* recvbuf = comm.alltoall(sendbuf) and the concatenation
FrontPadArray_alltoall_data ==
    /\ AllAt("P_alltoall_data")
    /\ Collective([r \in Ranks |->
           LET recvbuf == [i \in Ranks |-> loc[i].sendbuf[r]]
           IN  Return(r, [arg[r].array EXCEPT
                             !.rows = ConcatTo(recvbuf, NRanks) \o arg[r].array.rows])])

PadNext ==
    \/ FrontPadArray_allgather_len
    \/ FrontPadArray_allreduce
    \/ FrontPadArray_alltoall_plan
    \/ FrontPadArray_alltoall_data

\* The largest `front` a rank asks for.
Fronts == 0 .. MaxLen

InitPad ==
    /\ call = [op |-> "FrontPadArray"]
    /\ \E lens \in Lens, fr \in [Ranks -> Fronts] :
          arg = [r \in Ranks |->
                    [array |-> MakeArray(r, lens[r], int64, <<>>), front |-> fr[r]]]
    /\ pc = [r \in Ranks |-> "P_allgather_len"]
    /\ loc = NoLocals
    /\ ret = [r \in Ranks |-> Pending]

SpecPad == InitPad /\ [][PadNext]_vars

---------------------------------------------------------------------------
(* Properties of GatherArray, ScatterArray and FrontPadArray *)

LocalLens == [q \in Ranks |-> Len(arg[q].rows)]

\* Every rank passes an array, all of one dtype and one trailing shape.
SameKind ==
    \A r \in Ranks : /\ isinstance_ndarray(arg[r])
                     /\ arg[r].dtype = arg[0].dtype
                     /\ arg[r].tshape = arg[0].tshape

Transmissible(dtype) ==
    /\ dtype # object_
    /\ \A k \in DOMAIN dtype.ftypes : dtype.ftypes[k] # "O"

\* C1: GatherArray of arrays of equal dtype and trailing shape, whatever the
\* local lengths and the root: a destination rank (the root, or every rank
\* for root=Ellipsis) gets the concatenation of the local buffers in rank
\* order, of length the sum of the local lengths, and any other rank gets
\* None; the call fails on no rank when the dtype can be transmitted.
C1_GatherConcatenates ==
    (call.op = "GatherArray" /\ SameKind) =>
        \A r \in Ranks :
            /\ Transmissible(arg[0].dtype) => pc[r] # "raised"
            /\ pc[r] = "returned" =>
                  IF IsDest(r)
                  THEN /\ ret[r].val = ndarray(arg[0].dtype, arg[0].tshape,
                                               ConcatTo([q \in Ranks |-> arg[q].rows], NRanks))
                       /\ Len(ret[r].val.rows) = SumTo(LocalLens, NRanks)
                  ELSE ret[r].val = None

\* A gather to the last rank with an empty first rank has returned.
C1_Witness ==
    /\ call.op = "GatherArray" /\ SameKind /\ AllReturned
    /\ call.root = NRanks - 1
    /\ Len(arg[0].rows) = 0 /\ Len(arg[1].rows) = MaxLen
    /\ Len(ret[call.root].val.rows) >= MaxLen

\* C2: gathering arrays of equal flat or compound dtype to rank 0 and
\* scattering the result from rank 0 with counts = the original local
\* lengths gives every rank back its original array; no rank fails.
C2_RoundTrip ==
    /\ call.op \in {"RoundTrip:gather", "RoundTrip:scatter"} =>
          \A r \in Ranks : pc[r] # "raised"
    /\ call.op = "RoundTrip:scatter" =>
          \A r \in Ranks : pc[r] = "returned" => ret[r].val = call.orig[r]

\* A round trip of a compound array with an empty rank has completed.
C2_Witness ==
    /\ call.op = "RoundTrip:scatter" /\ AllReturned
    /\ call.orig[0].dtype = ab_ll
    /\ Len(call.orig[0].rows) = MaxLen /\ Len(call.orig[1].rows) = 0
    /\ Len(call.orig[NRanks - 1].rows) > 0

\* Arrays of flat dtypes, of which one differs in dtype or trailing shape.
FlatMismatch ==
    /\ \A r \in Ranks : /\ isinstance_ndarray(arg[r])
                        /\ arg[r].dtype.char \notin {"V", "O"}
    /\ \E r \in Ranks : arg[r].dtype # arg[0].dtype \/ arg[r].tshape # arg[0].tshape

GatherMismatchErrors ==
    {"ValueError: mismatch between shape[1:] across ranks in GatherArray",
     "ValueError: mismatch between dtypes across ranks in GatherArray"}

\* C3: for every root, when one rank's flat dtype or trailing shape differs,
\* no rank gets past the check to the gather and every rank raises the same
\* mismatch error.
C3_GatherMismatchEveryRoot ==
    (call.op = "GatherArray" /\ FlatMismatch) =>
        \A r \in Ranks :
            /\ pc[r] \in {"G_call", "G_allgather_shapes", "G_allgather_dtypes",
                          "G_bcast_bad", "raised"}
            /\ pc[r] = "raised" =>
                  /\ ret[r].err \in GatherMismatchErrors
                  /\ \A q \in Ranks : ret[q] = ret[r]

\* The counts of a ScatterArray call are given and fit the root's array.
ScatterWellFormed ==
    /\ call.op = "ScatterArray"
    /\ isinstance_ndarray(arg[call.root])
    /\ Transmissible(arg[call.root].dtype)
    /\ call.counts # None
    /\ Len(call.counts.list) = NRanks
    /\ SumSeq(call.counts.list) = Len(arg[call.root].rows)

\* C4: for any root that alone holds the array, with fitting counts, no rank
\* fails and rank r receives the rows
\* [sum(counts[:r]), sum(counts[:r]) + counts[r]) of the root's array.
C4_ScatterHonoursRoot ==
    ScatterWellFormed =>
        \A r \in Ranks :
            /\ pc[r] # "raised"
            /\ pc[r] = "returned" =>
                  LET counts == ByRank(call.counts.list)
                      off    == SumTo(counts, r)
                  IN  ret[r].val = ndarray(arg[call.root].dtype, arg[call.root].tshape,
                                           SubSeq(arg[call.root].rows, off + 1, off + counts[r]))

PadLens == [q \in Ranks |-> Len(arg[q].array.rows)]

\* Rank r asks for no more rows than the lower ranks hold.
PadFeasible(r) == arg[r].front <= SumTo(PadLens, r)

\* C5: when every rank's front is feasible, no rank fails, and rank r gets
\* front_r + len(local_r) rows: the global rows [offset_r - front_r, offset_r)
\* of the rank-order concatenation, in order, then its own rows.
C5_FrontPadResult ==
    (call.op = "FrontPadArray" /\ \A r \in Ranks : PadFeasible(r)) =>
        \A r \in Ranks :
            /\ pc[r] # "raised"
            /\ pc[r] = "returned" =>
                  LET off    == SumTo(PadLens, r)
                      global == ConcatTo([q \in Ranks |-> arg[q].array.rows], NRanks)
                      front  == arg[r].front
                  IN  /\ Len(ret[r].val.rows) = front + Len(arg[r].array.rows)
                      /\ ret[r].val.rows =
                            SubSeq(global, off - front + 1, off) \o arg[r].array.rows

\* A padded rank whose window reaches beyond the rank next to it (which is
\* empty, or shorter than the window).
C5_Witness ==
    /\ call.op = "FrontPadArray" /\ AllReturned
    /\ \E r \in Ranks : /\ r >= 2
                        /\ arg[r].front > Len(arg[r - 1].array.rows)
                        /\ Len(ret[r].val.rows) > Len(arg[r].array.rows) + 1

\* C6: when some rank's front exceeds what the lower ranks hold, no rank
\* reaches the all-to-all exchanges or returns, and every rank raises the
\* same ValueError together.
C6_FrontPadInfeasible ==
    (call.op = "FrontPadArray" /\ \E r \in Ranks : ~PadFeasible(r)) =>
        /\ \A r \in Ranks :
              /\ pc[r] \in {"P_allgather_len", "P_allreduce", "raised"}
              /\ pc[r] = "raised" =>
                    ret[r].err = "ValueError: cannot work out a plan to padd items"
        /\ (\E r \in Ranks : pc[r] = "raised") => \A r \in Ranks : pc[r] = "raised"

\* Every rank has raised although some rank's own request was feasible.
C6_Witness ==
    /\ call.op = "FrontPadArray"
    /\ \A r \in Ranks : pc[r] = "raised"
    /\ \E r \in Ranks : r > 0 /\ PadFeasible(r) /\ arg[r].front > 0
    /\ \E r \in Ranks : ~PadFeasible(r)

---------------------------------------------------------------------------
(* LinearTopology(local, comm) *)

\* The EmptyRank singleton, which is no element of any array: the items of
\* the arrays below are non-negative.
EmptyRank == -1

\* head (tail) = EmptyRank; if len(self.local) > 0: head = self.local[0]
Head0(local) == IF Len(local.rows) > 0 THEN local.rows[1] ELSE EmptyRank
Tail0(local) == IF Len(local.rows) > 0 THEN local.rows[Len(local.rows)] ELSE EmptyRank

\* for prev in reversed(tails[:comm.rank]): if prev is not EmptyRank: return prev
\* and taking the tail of the rank just below, empty or not.
prevOfNeighbour(tails, r) == IF r = 0 THEN EmptyRank ELSE tails[r - 1]

RECURSIVE prev(_, _)
prev(tails, r) ==
    IF r = 0 THEN EmptyRank
    ELSE IF tails[r - 1] # EmptyRank THEN tails[r - 1]
    ELSE prev(tails, r - 1)

\* for next in heads[comm.rank + 1:]: if next is not EmptyRank: return next
RECURSIVE next(_, _)
next(heads, r) ==
    IF r = NRanks - 1 THEN EmptyRank
    ELSE IF heads[r + 1] # EmptyRank THEN heads[r + 1]
    ELSE next(heads, r + 1)

\* heads() and next(): heads = self.comm.allgather(head)
LinearTopology_allgather_head ==
    /\ AllAt("T_allgather_head")
    /\ \E heads \in {[q \in Ranks |-> Head0(arg[q].local)]} :
          Collective([r \in Ranks |->
              Return(r, IF call.op = "heads" THEN heads ELSE next(heads, r))])

\* tails() and prev(): tails = self.comm.allgather(tail)
LinearTopology_allgather_tail ==
    /\ AllAt("T_allgather_tail")
    /\ \E tails \in {[q \in Ranks |-> Tail0(arg[q].local)]} :
          Collective([r \in Ranks |->
              Return(r, IF call.op = "tails" THEN tails ELSE prev(tails, r))])

TopologyNext ==
    \/ LinearTopology_allgather_head
    \/ LinearTopology_allgather_tail

\* LinearTopology(local, comm) of any local arrays, empty ones among them,
\* with items of other dtypes too.
InitTopology ==
    /\ call \in {[op |-> o] : o \in {"heads", "tails", "prev", "next"}}
    /\ \E lens \in Lens, dt \in {int64, float64} :
          arg = [r \in Ranks |-> [local |-> MakeArray(r, lens[r], dt, <<>>)]]
    /\ pc = [r \in Ranks |->
                IF call.op \in {"heads", "next"} THEN "T_allgather_head"
                ELSE "T_allgather_tail"]
    /\ loc = [r \in Ranks |-> <<>>]
    /\ ret = [r \in Ranks |-> Pending]

SpecTopology == InitTopology /\ [][TopologyNext]_vars

---------------------------------------------------------------------------
(* DistributedArray(local, comm) *)

\* numpy.array(local).dtype if len(local) else None; and the dtype of the
\* array whether it has items or not.
LocalDtypeOfAny(local) == local.dtype
LocalDtype(local) == IF Len(local.rows) > 0 THEN local.dtype ELSE None

\* _find_dtype after the allgather: the one dtype of the non-empty ranks.
find_dtype(dtypes) ==
    LET set == {dtypes[q] : q \in Ranks} \ {None}
    IN  IF Cardinality(set) > 1
        THEN [kind |-> "raise",
              err |-> "TypeError: Type of local array is inconsistent between ranks"]
        ELSE IF set = {}
        THEN [kind |-> "raise", err |-> "StopIteration"]
        ELSE [kind |-> "return", val |-> CHOOSE d \in set : TRUE]

\* Entry of DistributedArray(local, comm) on rank r.  `after` is where the
\* caller goes on with the new object ("return": it returns it); frame holds
\* the caller's locals.  And an entry that leaves out the allgather of the
\* dtypes on a rank without items.
DistributedArrayUnlessEmpty(r, local, after, frame) ==
    Goto(r, IF Len(local.rows) = 0 THEN "D_allgather_shape" ELSE "D_allgather_dtype",
         ("d_local" :> local) @@ ("d_after" :> after) @@ frame)
DistributedArray(r, local, after, frame) ==
    Goto(r, "D_allgather_dtype",
         ("d_local" :> local) @@ ("d_after" :> after) @@ frame)

DistributedArray_allgather_dtype ==
    /\ AllAt("D_allgather_dtype")
    /\ \E found \in {find_dtype([q \in Ranks |-> LocalDtype(loc[q].d_local)])} :
          Collective([r \in Ranks |->
              IF found.kind = "raise" THEN Raise(r, found.err)
              ELSE Goto(r, "D_allgather_shape", Put(r, "d_dtype", found.val))])

\* shapes = set(shape[1:] for shape in comm.allgather(shape))
DistributedArray_allgather_shape ==
    /\ AllAt("D_allgather_shape")
    /\ \E shapes \in {{loc[q].d_local.tshape : q \in Ranks}} :
          Collective([r \in Ranks |->
              IF Cardinality(shapes) > 1
              THEN Raise(r, "TypeError: Shape of local array is inconsistent between ranks")
              ELSE Goto(r, "D_allreduce_clen", loc[r])])

\* clen = comm.allreduce(shape[0]); cshape = tuple([clen] + list(shape[1:]))
DistributedArray_allreduce_clen ==
    /\ AllAt("D_allreduce_clen")
    /\ \E clen \in {SumTo([q \in Ranks |-> Len(loc[q].d_local.rows)], NRanks)} :
          Collective([r \in Ranks |->
              Goto(r, "D_allgather_len",
                   Put(r, "d_cshape", <<clen>> \o loc[r].d_local.tshape))])

\* self.coffset = sum(comm.allgather(shape[0])[:comm.rank]); and the sum
\* that takes in the rank's own length.
coffsetInclusive(lens, r) == SumTo(lens, r + 1)
coffset(lens, r) == SumTo(lens, r)

\* The object the constructor leaves on rank r.
NewArray(local, dtype, cshape, off) ==
    [local |-> local, dtype |-> dtype, cshape |-> cshape, coffset |-> off]

DistributedArray_allgather_len ==
    /\ AllAt("D_allgather_len")
    /\ \E lens \in {[q \in Ranks |-> Len(loc[q].d_local.rows)]} :
          Collective([r \in Ranks |->
              LET self == NewArray(loc[r].d_local, loc[r].d_dtype, loc[r].d_cshape,
                                   coffset(lens, r))
              IN  IF loc[r].d_after = "return" THEN Return(r, self)
                  ELSE Goto(r, loc[r].d_after, Put(r, "d_self", self))])

DistributedArrayNext ==
    \/ DistributedArray_allgather_dtype
    \/ DistributedArray_allgather_shape
    \/ DistributedArray_allreduce_clen
    \/ DistributedArray_allgather_len

---------------------------------------------------------------------------
(* Globally sorted arrays of non-negative integers, striped over the ranks *)

\* The largest item of such an array.
MaxVal == 2

\* The non-decreasing sequences of n items from lo .. MaxVal.
RECURSIVE SortedRows(_, _)
SortedRows(n, lo) ==
    IF n = 0 THEN {<<>>}
    ELSE UNION {{<<v>> \o s : s \in SortedRows(n - 1, v)} : v \in lo .. MaxVal}

\* The local parts of ranks r, r + 1, .. of a globally sorted array whose
\* items on the ranks below r are at most lo.
RECURSIVE Stripes(_, _)
Stripes(r, lo) ==
    IF r = NRanks THEN {<<>>}
    ELSE UNION {UNION {{<<s>> \o t : t \in Stripes(r + 1, IF n = 0 THEN lo ELSE s[n])} :
                       s \in SortedRows(n, lo)} : n \in 0 .. MaxLen}

\* The DistributedArray that the constructor made of the local parts st:
\* its fields are those DistributedArray_allgather_len leaves.
Constructed(st, dtype) ==
    [r \in Ranks |->
        NewArray(ndarray(dtype, <<>>, st[r + 1]), dtype,
                 <<SumTo([q \in Ranks |-> Len(st[q + 1])], NRanks)>>,
                 coffset([q \in Ranks |-> Len(st[q + 1])], r))]

\* The method is called on a globally sorted array.  No DistributedArray
\* has all its ranks empty: find_dtype raises then.
SelfIsSorted ==
    \E st \in Stripes(0, 0) :
        /\ st # [q \in 1 .. NRanks |-> <<>>]
        /\ arg = [r \in Ranks |-> [self |-> Constructed(st, int64)[r]]]

---------------------------------------------------------------------------
(* DistributedArray.unique_labels() *)

\* self.topology.prev(): tails = comm.allgather(tail)
unique_labels_allgather_tails ==
    /\ AllAt("U_allgather_tails")
    /\ \E tails \in {[q \in Ranks |-> Tail0(arg[q].self.local)]} :
          Collective([r \in Ranks |->
              Goto(r, "U_allgather_heads", Put(r, "prev", prev(tails, r)))])

\* junk, label = numpy.unique(self.local, return_inverse=True)
junk(rows) == Range(rows)
inverse(rows) ==
    [i \in 1 .. Len(rows) |-> Cardinality({v \in junk(rows) : v < rows[i]})]

\* Counting the last value although the next rank goes on with it.
NuniqueNoSpill(rows, nxt) ==
    IF Len(rows) = 0 THEN 0 ELSE Cardinality(junk(rows))

Nunique(rows, nxt) ==
    IF Len(rows) = 0 THEN 0
    ELSE IF nxt = rows[Len(rows)] THEN Cardinality(junk(rows)) - 1
    ELSE Cardinality(junk(rows))

\* self.topology.next(): heads = comm.allgather(head); then the local labels
unique_labels_allgather_heads ==
    /\ AllAt("U_allgather_heads")
    /\ \E heads \in {[q \in Ranks |-> Head0(arg[q].self.local)]} :
          Collective([r \in Ranks |->
              LET nxt == next(heads, r)
                  rows == arg[r].self.local.rows
              IN  Goto(r, "U_allgather_Nunique",
                       ("next" :> nxt) @@ ("label" :> inverse(rows))
                       @@ Put(r, "Nunique", Nunique(rows, nxt)))])

\* label += numpy.sum(comm.allgather(Nunique)[:comm.rank]);
\* return DistributedArray(label, self.comm)
unique_labels_allgather_Nunique ==
    /\ AllAt("U_allgather_Nunique")
    /\ \E all \in {[q \in Ranks |-> loc[q].Nunique]} :
          Collective([r \in Ranks |->
              LET shift == SumTo(all, r)
                  label == [i \in 1 .. Len(loc[r].label) |-> loc[r].label[i] + shift]
              IN  DistributedArray(r, ndarray(int64, <<>>, label), "return", loc[r])])

LabelsNext ==
    \/ unique_labels_allgather_tails
    \/ unique_labels_allgather_heads
    \/ unique_labels_allgather_Nunique
    \/ DistributedArrayNext

NoFrame == [r \in Ranks |-> [d_after |-> "return"]]

InitLabels ==
    /\ call = [op |-> "unique_labels"]
    /\ SelfIsSorted
    /\ pc = [r \in Ranks |-> "U_allgather_tails"]
    /\ loc = NoFrame
    /\ ret = [r \in Ranks |-> Pending]

SpecLabels == InitLabels /\ [][LabelsNext]_vars

---------------------------------------------------------------------------
(* DistributedArray.bincount(weights=None, local=False, shared_edges=True) *)

\* The value that bin 0 of the local histogram stands for; and the last
\* value below, whatever the rank's first value.
OffsetOfPrev(p, rows) == IF p # EmptyRank THEN p ELSE 0
Offset(p, rows) ==
    IF p # EmptyRank
    THEN IF Len(rows) > 0 /\ p # rows[1] THEN p + 1 ELSE p
    ELSE 0

\* numpy.bincount(x) of non-negative integers x.
bincount(x) ==
    IF Len(x) = 0 THEN <<>>
    ELSE LET max == CHOOSE m \in Range(x) : \A v \in Range(x) : v <= m
         IN  [k \in 1 .. max + 1 |-> Cardinality({i \in 1 .. Len(x) : x[i] = k - 1})]

\* prev = self.topology.prev(); offset; N = numpy.bincount(self.local - offset)
bincount_allgather_tails_prev ==
    /\ AllAt("B_allgather_tails_prev")
    /\ \E tails \in {[q \in Ranks |-> Tail0(arg[q].self.local)]} :
          Collective([r \in Ranks |->
              LET rows == arg[r].self.local.rows
                  offset == Offset(prev(tails, r), rows)
                  x == [i \in 1 .. Len(rows) |-> rows[i] - offset]
              IN  IF \E i \in 1 .. Len(x) : x[i] < 0
                  THEN Raise(r, "ValueError: 'list' argument must have no negative elements")
                  ELSE IF call.local
                  THEN Return(r, ndarray(int64, <<>>, bincount(x)))
                  ELSE Goto(r, "B_allgather_heads",
                            ("offset" :> offset) @@ Put(r, "N", bincount(x)))])

\* heads = self.topology.heads()
bincount_allgather_heads ==
    /\ AllAt("B_allgather_heads")
    /\ \E heads \in {[q \in Ranks |-> Head0(arg[q].self.local)]} :
          Collective([r \in Ranks |->
              Goto(r, "B_allgather_tails", Put(r, "heads", heads))])

\* tails = self.topology.tails(); distN = DistributedArray(N, self.comm)
bincount_allgather_tails ==
    /\ AllAt("B_allgather_tails")
    /\ \E tails \in {[q \in Ranks |-> Tail0(arg[q].self.local)]} :
          Collective([r \in Ranks |->
              DistributedArray(r, ndarray(int64, <<>>, loc[r].N),
                               "B_allgather_headsN", Put(r, "tails", tails))])

\* headsN = distN.topology.heads()
bincount_allgather_headsN ==
    /\ AllAt("B_allgather_headsN")
    /\ \E headsN \in {[q \in Ranks |-> Head0(loc[q].d_self.local)]} :
          Collective([r \in Ranks |->
              Goto(r, "B_allgather_tailsN", Put(r, "headsN", headsN))])

\* for i in reversed(range(self.comm.rank)), and the one peer just below.
NearestLowerPeer(r) == {i \in Ranks : i = r - 1}
LowerPeers(r) == {i \in Ranks : i < r}

\* for i in range(self.comm.rank + 1, self.comm.size)
HigherPeers(r) == {i \in Ranks : i > r}

\* The sum of edgeN[i] over the peers i whose edge item is `item`.
SharedCount(peers, edges, edgeN, item) ==
    SumTo([i \in Ranks |-> IF i \in peers /\ edges[i] = item THEN edgeN[i] ELSE 0],
          NRanks)

\* if not shared_edges: if anyshared: N = N[1:]; and never dropping it.
KeepEdge(N, anyshared, shared_edges) == N
DropEdge(N, anyshared, shared_edges) ==
    IF ~shared_edges /\ anyshared THEN Tail(N) ELSE N

\* The loops over the peers, on a rank with len(N) > 0.
Merged(r, N, rows, l) ==
    LET N0 == [N EXCEPT ![1] =
                  @ + SharedCount(LowerPeers(r), l.tails, l.tailsN, rows[1])]
        N1 == [N0 EXCEPT ![Len(N)] =
                  @ + SharedCount(HigherPeers(r), l.heads, l.headsN, rows[Len(rows)])]
        anyshared == \E i \in LowerPeers(r) : l.tails[i] = rows[1]
    IN  DropEdge(N1, anyshared, call.shared_edges)

\* tailsN = distN.topology.tails(); the merge; return DistributedArray(N)
bincount_allgather_tailsN ==
    /\ AllAt("B_allgather_tailsN")
    /\ \E tailsN \in {[q \in Ranks |-> Tail0(loc[q].d_self.local)]} :
          Collective([r \in Ranks |->
              LET l == Put(r, "tailsN", tailsN)
                  N == IF Len(l.N) > 0
                       THEN Merged(r, l.N, arg[r].self.local.rows, l)
                       ELSE l.N
              IN  DistributedArray(r, ndarray(int64, <<>>, N), "return", l)])

BincountNext ==
    \/ bincount_allgather_tails_prev
    \/ bincount_allgather_heads
    \/ bincount_allgather_tails
    \/ bincount_allgather_headsN
    \/ bincount_allgather_tailsN
    \/ DistributedArrayNext

BincountEnter ==
    /\ SelfIsSorted
    /\ pc = [r \in Ranks |-> "B_allgather_tails_prev"]
    /\ loc = NoFrame
    /\ ret = [r \in Ranks |-> Pending]

\* bincount(local=False or True), shared edges kept on every rank.
InitBincount ==
    /\ call \in {[op |-> "bincount", local |-> l, shared_edges |-> TRUE] :
                    l \in BOOLEAN}
    /\ BincountEnter

\* bincount(shared_edges=False)
InitBincountLeft ==
    /\ call = [op |-> "bincount", local |-> FALSE, shared_edges |-> FALSE]
    /\ BincountEnter

SpecBincount == InitBincount /\ [][BincountNext]_vars

SpecBincountLeft == InitBincountLeft /\ [][BincountNext]_vars

---------------------------------------------------------------------------
(* DistributedArray.concat(args.., localsize=None) *)

\* go + arg.coffset + numpy.arange(len(arg.local))[j], and without the
\* offset of the rank.
IndexInRank(go, arg_, j) == go + j
Index(go, arg_, j) == go + arg_.coffset + j

\* The records (index, el) that the loop over args[k..] writes to inp.
RECURSIVE Tagged(_, _, _)
Tagged(args, k, go) ==
    IF k > Len(args) THEN <<>>
    ELSE [j \in 1 .. Len(args[k].local.rows) |->
             <<Index(go, args[k], j - 1), args[k].local.rows[j]>>]
         \o Tagged(args, k + 1, go + args[k].cshape[1])

RECURSIVE SumLens(_)
SumLens(args) ==
    IF args = <<>> THEN 0 ELSE Len(Head(args).local.rows) + SumLens(Tail(args))

\* localsize = kwargs.pop('localsize', None); if None, the local lengths
localsize(a) ==
    IF "localsize" \in DOMAIN a.kwargs THEN a.kwargs.localsize ELSE SumLens(a.args)

\* The local code of concat up to the sort.
concat_call ==
    /\ AllAt("C_call")
    /\ Collective([r \in Ranks |->
          Goto(r, "C_mpsort",
               ("inp" :> Tagged(arg[r].args, 1, 0))
               @@ Put(r, "out", localsize(arg[r])))])

\* Where the p-th of the records s goes in the stable order by index.
Place(s, p) ==
    1 + Cardinality({q \in 1 .. Len(s) :
                        s[q][1] < s[p][1] \/ (s[q][1] = s[p][1] /\ q < p)})

\* mpsort.sort(inp, orderby='index', out=out, comm=comm): the records of all
\* ranks in the stable order by index, dealt to the ranks' out buffers in
\* rank order.  The out buffers must hold as many records as there are.
MpSort(inp, sizes) ==
    LET all == ConcatTo(inp, NRanks)
        sorted == [i \in 1 .. Len(all) |->
                      all[CHOOSE p \in 1 .. Len(all) : Place(all, p) = i]]
    IN  [r \in Ranks |-> SubSeq(sorted, SumTo(sizes, r) + 1, SumTo(sizes, r + 1))]

\* return DistributedArray(out['el'].copy(), comm=comm)
concat_mpsort ==
    /\ AllAt("C_mpsort")
    /\ \E out \in {MpSort([q \in Ranks |-> loc[q].inp], [q \in Ranks |-> loc[q].out])} :
          Collective([r \in Ranks |->
              DistributedArray(r,
                  ndarray(int64, <<>>, [i \in 1 .. Len(out[r]) |-> out[r][i][2]]),
                  "return", [d_after |-> "return"])])

ConcatNext ==
    \/ concat_call
    \/ concat_mpsort
    \/ DistributedArrayNext

\* The a-th argument: an array of distinct items striped by lens.
ConcatArg(a, lens) ==
    [r \in Ranks |->
        NewArray(ndarray(int64, <<>>, FlatRows(r + (a - 1) * NRanks, lens[r])), int64,
                 <<SumTo(lens, NRanks)>>, coffset(lens, r))]

\* Some ways to size the result with as many places as there are items:
\* all on one rank, the sizes of the next rank, an even split.
LocalSizes(total, default) ==
    {[r \in Ranks |-> IF r = d THEN total ELSE 0] : d \in Ranks}
    \cup {[r \in Ranks |-> default[(r + 1) % NRanks]],
          [r \in Ranks |-> (total * (r + 1)) \div NRanks - (total * r) \div NRanks]}

InitConcat ==
    /\ call = [op |-> "concat"]
    /\ \E lens1 \in Lens, lens2 \in [Ranks -> 0 .. 1] :
          /\ SumTo(lens1, NRanks) > 0
          /\ SumTo(lens2, NRanks) > 0
          /\ \E args \in {[r \in Ranks |->
                             <<ConcatArg(1, lens1)[r], ConcatArg(2, lens2)[r]>>]} :
                \/ arg = [r \in Ranks |-> [args |-> args[r], kwargs |-> <<>>]]
                \/ \E ls \in LocalSizes(SumTo(lens1, NRanks) + SumTo(lens2, NRanks),
                                        [r \in Ranks |-> lens1[r] + lens2[r]]) :
                      arg = [r \in Ranks |->
                                [args |-> args[r], kwargs |-> [localsize |-> ls[r]]]]
    /\ pc = [r \in Ranks |-> "C_call"]
    /\ loc = NoFrame
    /\ ret = [r \in Ranks |-> Pending]

SpecConcat == InitConcat /\ [][ConcatNext]_vars

---------------------------------------------------------------------------
(* DistributedArray.sort(orderby=None) *)

\* A field name passed as orderby.
Str(s) == [kind |-> "str", val |-> s]

\* The dtype of the records that sort(orderby='key') is called on.
key_id == structured(<<"key", "id">>, <<"l", "l">>)

\* The key of the item e under orderby: the item itself, or its field; and
\* a key that does not look at the item.
OrderByNothing(dtype, e, orderby) == 0
OrderBy(dtype, e, orderby) ==
    IF orderby = None THEN e ELSE e[FieldIndex(dtype, orderby.val)]

\* In place, mpsort leaves every rank as many items as it had; and dealing
\* them evenly instead.
EvenSizes(lens) ==
    [r \in Ranks |-> (SumTo(lens, NRanks) * (r + 1)) \div NRanks
                     - (SumTo(lens, NRanks) * r) \div NRanks]
InPlaceSizes(lens) == lens

\* mpsort.sort(self.local, orderby, comm=self.comm): self.local is reordered
\* in place, across the ranks; the call returns nothing.
sort_mpsort ==
    /\ AllAt("S_mpsort")
    /\ \E out \in {MpSort([q \in Ranks |->
                             [i \in 1 .. Len(arg[q].self.local.rows) |->
                                 <<OrderBy(arg[q].self.dtype, arg[q].self.local.rows[i],
                                           call.orderby),
                                   arg[q].self.local.rows[i]>>]],
                          InPlaceSizes([q \in Ranks |-> Len(arg[q].self.local.rows)]))} :
          Collective([r \in Ranks |->
              [pc |-> "returned",
               loc |-> Put(r, "self",
                           [arg[r].self EXCEPT !.local.rows =
                               [i \in 1 .. Len(out[r]) |-> out[r][i][2]]]),
               ret |-> [kind |-> "return", val |-> None]]])

SortNext == sort_mpsort

\* The items of a globally sorted array taken backwards, or from its second
\* item on and round, striped as the array was.
Shuffled(st, how) ==
    LET all == ConcatTo([q \in Ranks |-> st[q + 1]], NRanks)
        n == Len(all)
        mixed == [g \in 1 .. n |->
                     IF how = "reversed" THEN all[n + 1 - g] ELSE all[(g % n) + 1]]
        lens == [q \in Ranks |-> Len(st[q + 1])]
    IN  [q \in 1 .. NRanks |->
            SubSeq(mixed, SumTo(lens, q - 1) + 1, SumTo(lens, q))]

\* The records (key, id) with the keys ks, the id being the place in the
\* whole array.
Keyed(ks) ==
    [q \in 1 .. NRanks |->
        [i \in 1 .. Len(ks[q]) |->
            <<ks[q][i], SumTo([p \in Ranks |-> Len(ks[p + 1])], q - 1) + i>>]]

\* sort(orderby=None) on an array of integers out of order, and
\* sort(orderby='key') on records (key, id) whose keys are out of order.
InitSort ==
    /\ call \in {[op |-> "sort", orderby |-> o] : o \in {None, Str("key")}}
    /\ \E st \in Stripes(0, 1), how \in {"reversed", "rotated"} :
          /\ st # [q \in 1 .. NRanks |-> <<>>]
          /\ \E self \in {IF call.orderby = None
                           THEN Constructed(Shuffled(st, how), int64)
                           ELSE Constructed(Keyed(Shuffled(st, how)), key_id)} :
                arg = [r \in Ranks |-> [self |-> self[r]]]
    /\ pc = [r \in Ranks |-> "S_mpsort"]
    /\ loc = NoFrame
    /\ ret = [r \in Ranks |-> Pending]

SpecSort == InitSort /\ [][SortNext]_vars

---------------------------------------------------------------------------
(* DistributedArray.cempty(cshape, dtype, comm) *)

\* llen = cshape[0] * (comm.rank + 1) // comm.size
\*        - cshape[0] * (comm.rank) // comm.size;
\* and the length with the remainder on the lowest ranks.
llenLowestFirst(r, clen) ==
    clen \div NRanks + (IF r < clen % NRanks THEN 1 ELSE 0)
llen(r, clen) == (clen * (r + 1)) \div NRanks - (clen * r) \div NRanks

\* dtype = DistributedArray._find_dtype(dtype, comm); llen; shape
cempty_allgather_dtype ==
    /\ AllAt("E_allgather_dtype")
    /\ \E found \in {find_dtype([q \in Ranks |-> arg[q].dtype])} :
          Collective([r \in Ranks |->
              IF found.kind = "raise" THEN Raise(r, found.err)
              ELSE Goto(r, "E_allgather_shape",
                        ("dtype" :> found.val)
                        @@ Put(r, "shape", <<llen(r, arg[r].cshape[1])>>
                                           \o Tail(arg[r].cshape)))])

\* _find_cshape(shape, comm): shapes = comm.allgather(shape)
cempty_allgather_shape ==
    /\ AllAt("E_allgather_shape")
    /\ \E shapes \in {{Tail(loc[q].shape) : q \in Ranks}} :
          Collective([r \in Ranks |->
              IF Cardinality(shapes) > 1
              THEN Raise(r, "TypeError: Shape of local array is inconsistent between ranks")
              ELSE Goto(r, "E_allreduce_clen", loc[r])])

\* clen = comm.allreduce(shape[0]); the comparison with cshape;
\* local = numpy.empty(shape, dtype); return DistributedArray(local, comm)
cempty_allreduce_clen ==
    /\ AllAt("E_allreduce_clen")
    /\ \E clen \in {SumTo([q \in Ranks |-> loc[q].shape[1]], NRanks)} :
          Collective([r \in Ranks |->
              IF arg[r].cshape # <<clen>> \o Tail(loc[r].shape)
              THEN Raise(r, "ValueError: input cshape is inconsistent")
              ELSE DistributedArray(r,
                       Empty(loc[r].shape[1], loc[r].dtype, Tail(loc[r].shape)),
                       "return", loc[r])])

CemptyNext ==
    \/ cempty_allgather_dtype
    \/ cempty_allgather_shape
    \/ cempty_allreduce_clen
    \/ DistributedArrayNext

\* Every rank asks for the same global shape; a rank may pass dtype None.
InitCempty ==
    /\ call = [op |-> "cempty"]
    /\ \E clen \in 0 .. NRanks * MaxLen + 1, ts \in {<<>>, <<2>>},
          dt \in {int64, float64}, nodtype \in SUBSET Ranks :
          /\ nodtype # Ranks
          /\ arg = [r \in Ranks |->
                       [cshape |-> <<clen>> \o ts,
                        dtype |-> IF r \in nodtype THEN None ELSE dt]]
    /\ pc = [r \in Ranks |-> "E_allgather_dtype"]
    /\ loc = NoFrame
    /\ ret = [r \in Ranks |-> Pending]

SpecCempty == InitCempty /\ [][CemptyNext]_vars

---------------------------------------------------------------------------
(* DistributedArray(local, comm) on any local arrays, and __getitem__ *)

\* What the ranks may pass as local: arrays of one dtype and trailing shape,
\* or with one rank whose dtype or trailing shape is another.
LocalArrays(lens, dt, ts, d, how) ==
    [r \in Ranks |->
        IF r # d \/ how = "same" THEN MakeArray(r, lens[r], dt, ts)
        ELSE IF how = "dtype"
        THEN MakeArray(r, lens[r], IF dt = int64 THEN float64 ELSE int64, ts)
        ELSE MakeArray(r, lens[r], dt, IF ts = <<>> THEN <<2>> ELSE <<>>)]

InitCtor ==
    /\ call = [op |-> "DistributedArray"]
    /\ \E lens \in Lens, dt \in {int64, float64}, ts \in {<<>>, <<2>>},
          d \in Ranks, how \in {"same", "dtype", "shape"} :
          arg = [r \in Ranks |-> [local |-> LocalArrays(lens, dt, ts, d, how)[r]]]
    /\ pc = [r \in Ranks |-> "D_allgather_dtype"]
    /\ loc = [r \in Ranks |-> [d_local |-> arg[r].local, d_after |-> "return"]]
    /\ ret = [r \in Ranks |-> Pending]

SpecCtor == InitCtor /\ [][DistributedArrayNext]_vars

\* self.local[key] for key = slice(start, stop), 0 <= start, 0 <= stop
Slice(local, key) ==
    [local EXCEPT !.rows =
        SubSeq(local.rows, key.start + 1,
               IF key.stop < Len(local.rows) THEN key.stop ELSE Len(local.rows))]

\* return DistributedArray(self.local[key], self.comm)
getitem_call ==
    /\ AllAt("I_call")
    /\ Collective([r \in Ranks |->
          DistributedArray(r, Slice(arg[r].self.local, arg[r].key), "return", loc[r])])

GetitemNext ==
    \/ getitem_call
    \/ DistributedArrayNext

InitGetitem ==
    /\ call = [op |-> "getitem"]
    /\ \E lens \in Lens, start \in 0 .. MaxLen, stop \in 0 .. MaxLen :
          /\ SumTo(lens, NRanks) > 0
          /\ arg = [r \in Ranks |->
                       [self |-> Constructed([q \in 1 .. NRanks |->
                                                 FlatRows(q - 1, lens[q - 1])], int64)[r],
                        key |-> [start |-> start, stop |-> stop]]]
    /\ pc = [r \in Ranks |-> "I_call"]
    /\ loc = NoFrame
    /\ ret = [r \in Ranks |-> Pending]

SpecGetitem == InitGetitem /\ [][GetitemNext]_vars

---------------------------------------------------------------------------
(* Every way to a DistributedArray, and the sorts of what they give *)

\* unique_labels and bincount in all its modes, on the globally sorted
\* arrays of the two largest values.
InitSortedSelf ==
    /\ call \in {[op |-> "unique_labels"],
                 [op |-> "bincount", local |-> TRUE, shared_edges |-> TRUE]}
                \cup {[op |-> "bincount", local |-> FALSE, shared_edges |-> e] :
                         e \in BOOLEAN}
    /\ \E st \in Stripes(0, MaxVal - 1) :
          /\ st # [q \in 1 .. NRanks |-> <<>>]
          /\ \E self \in {Constructed(st, int64)} :
                arg = [r \in Ranks |-> [self |-> self[r]]]
    /\ pc = [r \in Ranks |-> IF call.op = "unique_labels" THEN "U_allgather_tails"
                             ELSE "B_allgather_tails_prev"]
    /\ loc = NoFrame
    /\ ret = [r \in Ranks |-> Pending]

\* Any call that returns a DistributedArray.
InitArrays ==
    \/ InitCtor
    \/ InitCempty
    \/ InitConcat
    \/ InitGetitem
    \/ InitSortedSelf

\* The DistributedArray that rank r was returned, if it was returned one.
Produced(r) ==
    IF ret[r].kind = "return" /\ "coffset" \in DOMAIN ret[r].val
    THEN ret[r].val
    ELSE IF call.op = "sort" /\ pc[r] = "returned" THEN loc[r].self
    ELSE None

\* a.sort() on the array a that the call before has produced or sorted,
\* when it is an array of numbers.
sort_call ==
    /\ AllReturned
    /\ \A r \in Ranks :
          /\ Produced(r) # None
          /\ Produced(r).local.tshape = <<>>
          /\ Produced(r).dtype.char # "V"
    /\ call' = [op |-> "sort", orderby |-> None]
    /\ arg' = [r \in Ranks |-> [self |-> Produced(r)]]
    /\ pc' = [r \in Ranks |-> "S_mpsort"]
    /\ loc' = NoFrame
    /\ ret' = [r \in Ranks |-> Pending]

ArraysNext ==
    \/ cempty_allgather_dtype
    \/ cempty_allgather_shape
    \/ cempty_allreduce_clen
    \/ concat_call
    \/ concat_mpsort
    \/ getitem_call
    \/ unique_labels_allgather_tails
    \/ unique_labels_allgather_heads
    \/ unique_labels_allgather_Nunique
    \/ bincount_allgather_tails_prev
    \/ bincount_allgather_heads
    \/ bincount_allgather_tails
    \/ bincount_allgather_headsN
    \/ bincount_allgather_tailsN
    \/ sort_call
    \/ sort_mpsort
    \/ DistributedArrayNext

SpecArrays == InitArrays /\ [][ArraysNext]_vars

---------------------------------------------------------------------------
(* Properties of DistributedArray *)

SelfRows(r) == arg[r].self.local.rows

\* The values held anywhere in the array.
GlobalValues == UNION {Range(SelfRows(q)) : q \in Ranks}

\* How many ranks hold the value v.
Holders(v) == {q \in Ranks : v \in Range(SelfRows(q))}

\* C7: unique_labels gives every element the number of distinct global
\* values smaller than it, on every rank, whatever the striping of the
\* globally sorted array (empty ranks, runs of equal values over many ranks).
C7_UniqueLabels ==
    (call.op = "unique_labels" /\ AllDone) =>
        \A r \in Ranks :
            /\ pc[r] = "returned"
            /\ Len(ret[r].val.local.rows) = Len(SelfRows(r))
            /\ \A i \in 1 .. Len(SelfRows(r)) :
                  ret[r].val.local.rows[i] =
                      Cardinality({v \in GlobalValues : v < SelfRows(r)[i]})

\* A run of equal values on three or more ranks, after smaller values, has
\* been labelled.
C7_Witness ==
    /\ call.op = "unique_labels"
    /\ AllReturned
    /\ \E v \in GlobalValues :
          /\ Cardinality(Holders(v)) >= 3
          /\ \E w \in GlobalValues : w < v

\* How many elements of the whole array have the value v.
GlobalCount(v) ==
    SumTo([q \in Ranks |->
              Cardinality({i \in 1 .. Len(SelfRows(q)) : SelfRows(q)[i] = v})], NRanks)

\* The ranks below r that hold an element.
NonEmptyBelow(r) == {q \in Ranks : q < r /\ Len(SelfRows(q)) > 0}

\* The value that bin 0 of rank r stands for: 0 if no rank below holds an
\* element; else, p being the last value below r, p if r's first value is p
\* and p + 1 if not.
BinZero(r) ==
    IF NonEmptyBelow(r) = {} THEN 0
    ELSE LET q == CHOOSE q \in NonEmptyBelow(r) : \A o \in NonEmptyBelow(r) : o <= q
             p == SelfRows(q)[Len(SelfRows(q))]
         IN  IF Len(SelfRows(r)) > 0 /\ SelfRows(r)[1] = p THEN p ELSE p + 1

ResultRows(r) == ret[r].val.local.rows

\* C8: with shared_edges=True, bin k of rank r's histogram is the global
\* count of the value BinZero(r) + k, and every value the rank holds has a
\* bin, so a value shared by several ranks has its full count on each.
C8_BincountSharedEdges ==
    (call.op = "bincount" /\ ~call.local /\ call.shared_edges /\ AllDone) =>
        \A r \in Ranks :
            /\ pc[r] = "returned"
            /\ \A k \in 1 .. Len(ResultRows(r)) :
                  ResultRows(r)[k] = GlobalCount(BinZero(r) + k - 1)
            /\ \A v \in Range(SelfRows(r)) :
                  v - BinZero(r) + 1 \in 1 .. Len(ResultRows(r))

\* A histogram of a value that three or more ranks hold, beside an empty
\* rank or other values, has been returned.
C8_Witness ==
    /\ call.op = "bincount" /\ ~call.local /\ call.shared_edges
    /\ AllReturned
    /\ \E v \in GlobalValues :
          /\ Cardinality(Holders(v)) >= 3
          /\ GlobalCount(v) > 3
          /\ \E w \in GlobalValues : w # v

GlobalMax == CHOOSE m \in GlobalValues : \A v \in GlobalValues : v <= m

ResultLens == [q \in Ranks |-> Len(ResultRows(q))]

\* C9: with shared_edges=False the per-rank results, concatenated in rank
\* order, are the histogram of the whole array (bin v = global count of v for
\* v = 0 .. global maximum), and the bin of a value lies on the lowest rank
\* that holds the value.
C9_BincountOwnedEdges ==
    (call.op = "bincount" /\ ~call.local /\ ~call.shared_edges /\ AllDone) =>
        /\ AllReturned
        /\ ConcatTo([q \in Ranks |-> ResultRows(q)], NRanks)
              = [k \in 1 .. GlobalMax + 1 |-> GlobalCount(k - 1)]
        /\ \A v \in GlobalValues :
              LET low == CHOOSE q \in Holders(v) : \A o \in Holders(v) : q <= o
              IN  /\ SumTo(ResultLens, low) <= v
                  /\ v < SumTo(ResultLens, low + 1)

\* The histogram of an array with a value on three or more ranks has been
\* returned with the bins of shared edges kept on the left.
C9_Witness ==
    /\ call.op = "bincount" /\ ~call.local /\ ~call.shared_edges
    /\ AllReturned
    /\ \E v \in GlobalValues :
          /\ Cardinality(Holders(v)) >= 3
          /\ \E w \in GlobalValues : w < v

\* The rank-order concatenation of the k-th argument of concat.
ArgRows(k) == ConcatTo([q \in Ranks |-> arg[q].args[k].local.rows], NRanks)

\* C10: concat returns the items of A1, then those of A2, in their global
\* order, and rank r gets exactly localsize_r of them (by default as many as
\* it held in A1 and A2 together).
C10_ConcatOrder ==
    (call.op = "concat" /\ AllDone) =>
        /\ AllReturned
        /\ ConcatTo([q \in Ranks |-> ResultRows(q)], NRanks) = ArgRows(1) \o ArgRows(2)
        /\ \A r \in Ranks :
              Len(ResultRows(r)) =
                  IF "localsize" \in DOMAIN arg[r].kwargs
                  THEN arg[r].kwargs.localsize
                  ELSE Len(arg[r].args[1].local.rows) + Len(arg[r].args[2].local.rows)

\* Two arrays striped differently, the first with several items on a rank
\* above rank 0, have been concatenated into sizes other than the default.
C10_Witness ==
    /\ call.op = "concat"
    /\ AllReturned
    /\ \E r \in Ranks :
          /\ r > 0
          /\ Len(arg[r].args[1].local.rows) >= 2
          /\ Len(arg[r].args[1].local.rows) # Len(arg[r].args[2].local.rows)
    /\ \E r \in Ranks :
          /\ "localsize" \in DOMAIN arg[r].kwargs
          /\ Len(ResultRows(r)) #
                Len(arg[r].args[1].local.rows) + Len(arg[r].args[2].local.rows)

\* The whole array before the call and as the call left it, in rank order.
RowsBefore == ConcatTo([q \in Ranks |-> arg[q].self.local.rows], NRanks)
RowsAfter == ConcatTo([q \in Ranks |-> loc[q].self.local.rows], NRanks)

\* The key of an item: the item, or the field 'key' of a record (key, id).
KeyOf(e) == IF call.orderby = None THEN e ELSE e[1]

Occurrences(s, e) == Cardinality({i \in 1 .. Len(s) : s[i] = e})

\* C11: after sort the rank-order concatenation of the local buffers is
\* non-decreasing in the key and a permutation of what it was before.
C11_SortSorts ==
    (call.op = "sort" /\ AllDone) =>
        /\ AllReturned
        /\ \A i \in 1 .. Len(RowsAfter) - 1 :
              KeyOf(RowsAfter[i]) <= KeyOf(RowsAfter[i + 1])
        /\ Len(RowsAfter) = Len(RowsBefore)
        /\ \A e \in Range(RowsBefore) \cup Range(RowsAfter) :
              Occurrences(RowsAfter, e) = Occurrences(RowsBefore, e)

\* An array that was out of order has been sorted, and a key is now on both
\* sides of a rank boundary.
C11_Witness ==
    /\ call.op = "sort"
    /\ AllReturned
    /\ \E i \in 1 .. Len(RowsBefore) - 1 :
          KeyOf(RowsBefore[i]) > KeyOf(RowsBefore[i + 1])
    /\ \E r \in Ranks :
          /\ r + 1 \in Ranks
          /\ Len(loc[r].self.local.rows) > 0
          /\ Len(loc[r + 1].self.local.rows) > 0
          /\ KeyOf(loc[r].self.local.rows[Len(loc[r].self.local.rows)])
                = KeyOf(loc[r + 1].self.local.rows[1])

\* C20: sort leaves on every rank the local length, cshape, dtype and
\* coffset of the array as they were, changes only the items, and returns
\* no array.
C20_SortFrame ==
    (call.op = "sort" /\ AllDone) =>
        \A r \in Ranks :
            /\ pc[r] = "returned"
            /\ ret[r].val = None
            /\ Len(loc[r].self.local.rows) = Len(arg[r].self.local.rows)
            /\ loc[r].self.cshape = arg[r].self.cshape
            /\ loc[r].self.dtype = arg[r].self.dtype
            /\ loc[r].self.local.dtype = arg[r].self.local.dtype
            /\ loc[r].self.coffset = arg[r].self.coffset

\* A sort has moved items between ranks of unequal local lengths.
C20_Witness ==
    /\ call.op = "sort"
    /\ AllReturned
    /\ \E r, q \in Ranks :
          /\ Len(arg[r].self.local.rows) > Len(arg[q].self.local.rows)
          /\ Range(loc[q].self.local.rows) # Range(arg[q].self.local.rows)

---------------------------------------------------------------------------
(* More properties of ScatterArray and GatherArray *)

\* ScatterArray is called without counts on an array it can send.
ScatterEvenly ==
    /\ call.op = "ScatterArray"
    /\ call.counts = None
    /\ isinstance_ndarray(arg[call.root])
    /\ Transmissible(arg[call.root].dtype)

\* L div S rows, and one more on the first L mod S ranks.
Share(i, L) == L \div NRanks + (IF i < L % NRanks THEN 1 ELSE 0)

\* C12: without counts rank i receives L div S rows, plus one iff
\* i < L mod S, and they are the rows of the source after those of the ranks
\* below i; from the default root the call returns on every rank.
C12_ScatterEvenSplit ==
    ScatterEvenly =>
        /\ (call.root = DefaultRoot /\ AllDone) => AllReturned
        /\ \A r \in Ranks :
              pc[r] = "returned" =>
                  LET src == arg[call.root]
                      off == SumTo([q \in Ranks |-> Share(q, Len(src.rows))], r)
                  IN  ret[r].val =
                          ndarray(src.dtype, src.tshape,
                                  SubSeq(src.rows, off + 1,
                                         off + Share(r, Len(src.rows))))

\* A source that does not divide evenly has been scattered without counts.
C12_Witness ==
    /\ ScatterEvenly
    /\ AllReturned
    /\ Len(arg[call.root].rows) > NRanks
    /\ Len(arg[call.root].rows) % NRanks # 0

---------------------------------------------------------------------------
(* Properties of DistributedArray.cempty *)

\* The global length asked for.
AskedLen == arg[0].cshape[1]

\* C13 as claimed: the local lengths of the array cempty returns are L div S,
\* plus one on the ranks i < L mod S, as in ScatterArray's default split.
C13_CemptyLowestRanks ==
    (call.op = "cempty" /\ AllReturned) =>
        \A r \in Ranks : Len(ResultRows(r)) = Share(r, AskedLen)

\* C13 amended: for L >= 1 cempty returns on every rank, rank i holding
\* (L * (i + 1)) div S - (L * i) div S elements, which sum to L and differ by
\* at most one between ranks; for L = 0 every rank raises StopIteration.
C13_CemptyPartition ==
    (call.op = "cempty" /\ AllDone) =>
        IF AskedLen = 0
        THEN \A r \in Ranks : pc[r] = "raised" /\ ret[r].err = "StopIteration"
        ELSE /\ AllReturned
             /\ \A r \in Ranks :
                   Len(ResultRows(r)) =
                       (AskedLen * (r + 1)) \div NRanks - (AskedLen * r) \div NRanks
             /\ SumTo(ResultLens, NRanks) = AskedLen
             /\ \A r, q \in Ranks : ResultLens[r] - ResultLens[q] <= 1

\* An array whose length is no multiple of the number of ranks has been
\* created, the first rank not holding an extra element.
C13_Witness ==
    /\ call.op = "cempty"
    /\ AllReturned
    /\ AskedLen % NRanks # 0
    /\ \E r \in Ranks : ResultLens[r] > ResultLens[0]

\* The counts of a ScatterArray call have the wrong length, or do not sum to
\* the length of the array on root.
CountsWrongLength ==
    /\ call.op = "ScatterArray"
    /\ call.counts # None
    /\ Len(call.counts.list) # NRanks

CountsWrongSum ==
    /\ call.op = "ScatterArray"
    /\ call.counts # None
    /\ Len(call.counts.list) = NRanks
    /\ isinstance_ndarray(arg[call.root])
    /\ SumSeq(call.counts.list) # Len(arg[call.root].rows)

RootHoldsNoArray ==
    /\ call.op = "ScatterArray"
    /\ ~CountsWrongLength
    /\ ~isinstance_ndarray(arg[call.root])

\* C15: whichever rank is root, when its data is not an array every rank
\* raises the same ValueError before the broadcast of shape and dtype; no
\* rank goes on and none is left blocked.
C15_ScatterBadRootInput ==
    RootHoldsNoArray =>
        \A r \in Ranks :
            /\ pc[r] \in {"S_call", "S_bcast_bad_input", "raised"}
            /\ pc[r] = "raised" =>
                  ret[r].err = "ValueError: data must by numpy array on root in ScatterArray"
            /\ ~Blocked(r)


\* Some ranks, not all, pass GatherArray something that is not an array.
SomeNoArray ==
    /\ call.op = "GatherArray"
    /\ \E r \in Ranks : ~isinstance_ndarray(arg[r])
    /\ \E r \in Ranks : isinstance_ndarray(arg[r])

\* C16: when some ranks, not all, pass GatherArray something that is not an
\* array, every rank ends the call with an error and no rank stays blocked
\* in a collective that the failing rank never joins.
C16_GatherNonArrayUniform ==
    SomeNoArray =>
        \A r \in Ranks :
            /\ pc[r] # "returned"
            /\ ~Blocked(r)

---------------------------------------------------------------------------
(* Properties of LinearTopology *)

\* The non-empty ranks below and above r.
HoldersBelow(r) == {q \in Ranks : q < r /\ Len(arg[q].local.rows) > 0}
HoldersAbove(r) == {q \in Ranks : q > r /\ Len(arg[q].local.rows) > 0}

\* C17: prev() on rank r is the last item of the highest non-empty rank
\* below r, and EmptyRank iff there is none; next() is the first item of the
\* lowest non-empty rank above r, and EmptyRank iff there is none.  Either
\* is thus an item some other rank holds, whatever r itself holds.
C17_PrevNext ==
    \A r \in Ranks :
        /\ (call.op = "prev" /\ pc[r] = "returned") =>
              IF HoldersBelow(r) = {} THEN ret[r].val = EmptyRank
              ELSE LET q == CHOOSE q \in HoldersBelow(r) : \A o \in HoldersBelow(r) : o <= q
                   IN  /\ ret[r].val = arg[q].local.rows[Len(arg[q].local.rows)]
                       /\ ret[r].val # EmptyRank
        /\ (call.op = "next" /\ pc[r] = "returned") =>
              IF HoldersAbove(r) = {} THEN ret[r].val = EmptyRank
              ELSE LET q == CHOOSE q \in HoldersAbove(r) : \A o \in HoldersAbove(r) : q <= o
                   IN  /\ ret[r].val = arg[q].local.rows[1]
                       /\ ret[r].val # EmptyRank

\* prev() has returned on a rank that holds items, has an empty rank just
\* below and a non-empty one below that.
C17_Witness ==
    /\ call.op = "prev"
    /\ AllReturned
    /\ \E r \in Ranks :
          /\ r >= 2
          /\ Len(arg[r].local.rows) > 0
          /\ Len(arg[r - 1].local.rows) = 0
          /\ Len(arg[r - 2].local.rows) > 1

---------------------------------------------------------------------------
(* Properties of every DistributedArray *)

\* The arrays in the ranks' hands: the one returned or sorted, and distN
\* within bincount.
Slots == {"produced", "distN"}

Holds(s, r) ==
    IF s = "produced" THEN Produced(r) # None ELSE "d_self" \in DOMAIN loc[r]

Held(s, r) == IF s = "produced" THEN Produced(r) ELSE loc[r].d_self

HeldLens(s) == [q \in Ranks |-> Len(Held(s, q).local.rows)]

\* C18: on every array that the constructor, cempty, concat, __getitem__,
\* unique_labels or bincount has produced, and after every sort of it,
\* coffset on rank r is the sum of the local lengths of the ranks below r
\* and cshape[0] is the sum of all local lengths.
C18_OffsetInvariant ==
    \A s \in Slots :
        (\A r \in Ranks : Holds(s, r)) =>
            \A r \in Ranks :
                /\ Held(s, r).coffset = SumTo(HeldLens(s), r)
                /\ Held(s, r).cshape[1] = SumTo(HeldLens(s), NRanks)

\* An array with items above MaxVal, which a call before has produced, has
\* been sorted: a rank of it is empty and a rank above it is not.
C18_Witness ==
    /\ call.op = "sort"
    /\ call.orderby = None
    /\ AllReturned
    /\ \E e \in Range(RowsBefore) : e > MaxVal
    /\ \E r, q \in Ranks :
          /\ q < r
          /\ Len(Produced(q).local.rows) = 0
          /\ Len(Produced(r).local.rows) > 0
          /\ Produced(r).coffset > 0

---------------------------------------------------------------------------
(* Properties of the constructor *)

\* Two ranks with items differ in dtype, or two ranks in trailing shape.
LocalsDisagree ==
    \/ \E r, q \in Ranks :
          /\ Len(arg[r].local.rows) > 0
          /\ Len(arg[q].local.rows) > 0
          /\ arg[r].local.dtype # arg[q].local.dtype
    \/ \E r, q \in Ranks : arg[r].local.tshape # arg[q].local.tshape

\* C19: when two non-empty ranks differ in dtype, or any two ranks in
\* trailing shape, the constructor raises one and the same TypeError on
\* every rank at the same collective, no rank returns an object and none
\* stays blocked.
C19_CtorValidates ==
    (call.op = "DistributedArray" /\ LocalsDisagree) =>
        /\ \A r \in Ranks : pc[r] # "returned" /\ ~Blocked(r)
        /\ \A r \in Ranks :
              pc[r] = "raised" =>
                  /\ ret[r].err \in
                        {"TypeError: Type of local array is inconsistent between ranks",
                         "TypeError: Shape of local array is inconsistent between ranks"}
                  /\ \A q \in Ranks : pc[q] = "raised" /\ ret[q] = ret[r]


\* Some rank has items, the ranks with items have one dtype and all ranks
\* one trailing shape.
LocalsAgree ==
    /\ call.op = "DistributedArray"
    /\ \E r \in Ranks : Len(arg[r].local.rows) > 0
    /\ ~LocalsDisagree

\* C24: when some rank has items and the locals agree, the constructor
\* raises on no rank and returns on every rank, empty or not, an object
\* whose dtype is that of the ranks with items, whatever the dtype of the
\* empty ranks' arrays.
C24_EmptyRanks ==
    LocalsAgree =>
        \A r \in Ranks :
            /\ pc[r] # "raised"
            /\ ~Blocked(r)
            /\ pc[r] = "returned" =>
                  \A q \in Ranks :
                      Len(arg[q].local.rows) > 0 => ret[r].val.dtype = arg[q].local.dtype

\* The constructor has returned on a rank without items whose array has
\* another dtype than the arrays of the ranks with items.
C24_Witness ==
    /\ LocalsAgree
    /\ AllReturned
    /\ \E r, q \in Ranks :
          /\ Len(arg[r].local.rows) = 0
          /\ Len(arg[q].local.rows) > 0
          /\ arg[r].local.dtype # arg[q].local.dtype
          /\ ret[r].val.dtype = arg[q].local.dtype

---------------------------------------------------------------------------
(* Properties of bincount's local histogram *)

\* The histogram rank r has made of its own elements, when it has just
\* made it: what bincount(local=True) returns, and N as the rank goes on to
\* the next collective otherwise.
HasLocalHistogram(r) ==
    IF call.local THEN pc[r] = "returned" ELSE pc[r] = "B_allgather_heads"

LocalHistogram(r) == IF call.local THEN ret[r].val.rows ELSE loc[r].N

OwnCount(r, v) == Cardinality({i \in 1 .. Len(SelfRows(r)) : SelfRows(r)[i] = v})

\* C22: on a globally sorted array bin k of rank r's local histogram is the
\* number of rank r's own elements equal to BinZero(r) + k, every element
\* of the rank has its bin, and bincount(local=True) returns this histogram
\* on every rank.
C22_LocalHistogram ==
    call.op = "bincount" =>
        /\ (call.local /\ AllDone) => AllReturned
        /\ \A r \in Ranks :
              HasLocalHistogram(r) =>
                  /\ \A k \in 1 .. Len(LocalHistogram(r)) :
                        LocalHistogram(r)[k] = OwnCount(r, BinZero(r) + k - 1)
                  /\ \A v \in Range(SelfRows(r)) :
                        v - BinZero(r) + 1 \in 1 .. Len(LocalHistogram(r))

\* bincount(local=True) has returned where one rank goes on with the last
\* value of the rank below, and another starts above the value that its
\* bin 0 stands for.
C22_Witness ==
    /\ call.op = "bincount" /\ call.local
    /\ AllReturned
    /\ \E r, q \in Ranks :
          /\ NonEmptyBelow(r) # {} /\ NonEmptyBelow(q) # {}
          /\ Len(SelfRows(r)) > 0 /\ Len(SelfRows(q)) > 0
          /\ BinZero(r) = SelfRows(r)[1]
          /\ SelfRows(r)[1] \in Range(SelfRows(r - 1))
          /\ BinZero(q) < SelfRows(q)[1]

---------------------------------------------------------------------------
(* Properties of the order of ScatterArray's collectives *)

\* Rank r has called comm.Scatterv.
InTransfer(r) == pc[r] \in {"S_scatterv", "returned"}

\* Rank r has the broadcast shape and dtype, has allocated recvbuffer and
\* has called comm.Barrier().
ReadyToReceive(r) ==
    /\ {"shape", "dtype", "recvbuffer"} \subseteq DOMAIN loc[r]
    /\ pc[r] \in {"S_barrier", "S_scatterv", "returned"}

\* The collective a rank calls after the one it returns from.
ScatterOrder(from, to) ==
    \/ to = "raised" /\ from \in {"S_call", "S_bcast_bad_input", "S_bcast_shape"}
    \/ from = "S_call" /\ to = "S_bcast_bad_input"
    \/ from = "S_bcast_bad_input" /\ to = "S_bcast_shape"
    \/ from = "S_bcast_shape" /\ to = "S_allgather_counts" /\ call.counts = None
    \/ from = "S_bcast_shape" /\ to = "S_barrier" /\ call.counts # None
    \/ from = "S_allgather_counts" /\ to = "S_barrier"
    \/ from = "S_barrier" /\ to = "S_scatterv"
    \/ from = "S_scatterv" /\ to = "returned"

\* C21: no rank calls comm.Scatterv before every rank has the metadata and
\* its recvbuffer and has called the barrier; and every rank calls the
\* broadcast of bad_input, the broadcast of the metadata, the allgather of
\* the counts if counts is None, the barrier and the scatter in this order.
C21_ScatterOrder ==
    /\ [](\A r \in Ranks : InTransfer(r) => \A q \in Ranks : ReadyToReceive(q))
    /\ [][\A r \in Ranks : pc'[r] # pc[r] => ScatterOrder(pc[r], pc'[r])]_vars

\* With counts given, rank 0 has returned from the scatter while another
\* rank is still in the barrier.
C21_Witness ==
    /\ call.counts # None
    /\ pc[DefaultRoot] = "returned"
    /\ \E q \in Ranks : pc[q] = "S_barrier"

---------------------------------------------------------------------------
(* Every operation, called by all ranks with consistent arguments *)

\* The local length of rank r in the call.
LocalLen(r) ==
    CASE call.op = "GatherArray" -> Len(arg[r].rows)
      [] call.op = "FrontPadArray" -> Len(arg[r].array.rows)
      [] call.op = "DistributedArray" -> Len(arg[r].local.rows)
      [] OTHER -> Len(arg[r].self.local.rows)

\* Every rank has no item, one item or MaxLen items.
NoneOneOrAll == \A r \in Ranks : LocalLen(r) \in {0, 1, MaxLen}

\* GatherArray of arrays of one dtype and trailing shape to any root,
\* ScatterArray from rank 0 with no counts or fitting ones, FrontPadArray
\* with feasible fronts, the constructor on agreeing locals, unique_labels
\* and bincount on globally sorted arrays.
InitLockStep ==
    \/ InitGather /\ SameKind /\ Transmissible(arg[0].dtype) /\ NoneOneOrAll
    \/ InitScatter /\ call.root = DefaultRoot /\ (ScatterEvenly \/ ScatterWellFormed)
    \/ InitPad /\ NoneOneOrAll /\ \A r \in Ranks : PadFeasible(r)
    \/ InitCtor /\ LocalsAgree /\ NoneOneOrAll
    \/ InitSortedSelf /\ NoneOneOrAll

LockStepNext ==
    \/ GatherNext
    \/ ScatterNext
    \/ PadNext
    \/ unique_labels_allgather_tails
    \/ unique_labels_allgather_heads
    \/ unique_labels_allgather_Nunique
    \/ bincount_allgather_tails_prev
    \/ bincount_allgather_heads
    \/ bincount_allgather_tails
    \/ bincount_allgather_headsN
    \/ bincount_allgather_tailsN
    \/ DistributedArrayNext

\* A collective that every rank has called returns on every rank.
SpecLockStep == InitLockStep /\ [][LockStepNext]_vars /\ WF_vars(LockStepNext)

\* C23: called by all ranks with consistent arguments, every rank is at the
\* same collective call as every other at all times, whatever its local
\* length, its values and its being the root or not, and the operation
\* returns on every rank in the end.
C23_LockStep ==
    /\ [](\A r, q \in Ranks : pc[r] = pc[q])
    /\ <>AllReturned

\* The ranks of a bincount, one of them without items and another with,
\* are at the last collective of the five before the constructor.
C23_Witness ==
    /\ call.op = "bincount"
    /\ AllAt("B_allgather_tailsN")
    /\ \E r, q \in Ranks :
          /\ Len(arg[r].self.local.rows) = 0
          /\ Len(arg[q].self.local.rows) = MaxLen

===========================================================================
